---- MODULE Spec2Model ----
(***************************************************************************)
(* MediCheck AI: the LangGraph workflow of src/medical_workflow.py, its    *)
(* six nodes (src/medical_agents.py) and the programs that drive it: the   *)
(* console driver (src/main.py), the Streamlit driver                      *)
(* (src/streamlit_app.py) and a direct caller of medcheck_agent.           *)
(*                                                                         *)
(* Text is a sequence of tokens: user-typed text is a sequence of          *)
(* one-character strings, a literal of the source is one token.  A Python  *)
(* dict is a function whose DOMAIN is the set of keys present.             *)
(***************************************************************************)
EXTENDS Integers, Sequences, FiniteSets, TLC

VARIABLES
    cp,          \* MemorySaver: thread id -> latest checkpoint
    run,         \* client -> its stream() invocation in flight, with the thread's
                 \* values (base) and the report files when it was called
    final_state, \* client -> the driver's local final_state (last event output)
    files,       \* medical_reports/: filename -> content
    clock,       \* wall clock, in seconds
    con,         \* console driver: program counter, exit status, prompt answers
    ss,          \* Streamlit: browser session -> st.session_state
    ui,          \* Streamlit: browser session -> script position and pending click
    hist,        \* client -> events the driver has seen (observation only)
    search       \* tavily_search: the search responses and the results kept of them

vars == <<cp, run, final_state, files, clock, con, ss, ui, hist, search>>

-----------------------------------------------------------------------------
(* Bounds of the model *)

MaxClock == 0        \* seconds the clock can advance
MaxEvents == 16      \* submissions, stream calls and node executions of one client
MaxPairEvents == 8   \* the same, of a client that runs next to another one
MaxResumerEvents == 4    \* the same, of the client that only resumes
MaxReuseEvents == 17 \* the same, of the client that runs twice on its thread id
MaxTailLen == 3      \* characters after the padding of a long symptoms text
MaxResponses == 2    \* responses given to deduplicate_search_results
MaxResults == 2      \* results of one response

-----------------------------------------------------------------------------
(* Text *)

Whitespace == {" ", "\t", "\n"}

UpperCase == {"A", "E", "L", "N", "O"}

LowerChar(ch) ==
    CASE ch = "A" -> "a" [] ch = "E" -> "e" [] ch = "L" -> "l"
      [] ch = "N" -> "n" [] ch = "O" -> "o" [] OTHER -> ch

UpperChar(ch) ==
    CASE ch = "a" -> "A" [] ch = "d" -> "D" [] ch = "e" -> "E" [] ch = "g" -> "G"
      [] ch = "l" -> "L" [] ch = "m" -> "M" [] ch = "n" -> "N" [] ch = "o" -> "O"
      [] ch = "r" -> "R" [] ch = "t" -> "T" [] ch = "u" -> "U" [] ch = "w" -> "W"
      [] OTHER -> ch

\* str.lower()
Lower(s) == [i \in 1..Len(s) |-> LowerChar(s[i])]

\* str.upper()
Upper(s) == [i \in 1..Len(s) |-> UpperChar(s[i])]

RECURSIVE LStrip(_)
LStrip(s) == IF s # <<>> /\ Head(s) \in Whitespace THEN LStrip(Tail(s)) ELSE s

RECURSIVE RStrip(_)
RStrip(s) ==
    IF s # <<>> /\ s[Len(s)] \in Whitespace THEN RStrip(SubSeq(s, 1, Len(s) - 1)) ELSE s

\* str.strip()
Strip(s) == RStrip(LStrip(s))

\* Python truthiness of a str / dict / list
Truthy(x) == DOMAIN x # {}

\* piece in text
Contains(text, piece) == \E i \in 1..Len(text) : text[i] = piece

Headache == <<"h", "e", "a", "d", "a", "c", "h", "e">>
ChestPain == <<"c", "h", "e", "s", "t", " ", "p", "a", "i", "n">>

LOW == <<"l", "o", "w">>
MODERATE == <<"m", "o", "d", "e", "r", "a", "t", "e">>
URGENT == <<"u", "r", "g", "e", "n", "t">>

\* models.py: urgency_level: Literal["low", "moderate", "urgent"]
Urgencies == {LOW, MODERATE, URGENT}

NoMedicalHistory == <<"No medical history provided">>
NoAdditionalHistory == <<"No additional medical history provided">>

-----------------------------------------------------------------------------
(* Messages and state dicts *)

AIMessage(content) == [role |-> "ai", content |-> content]
HumanMessage(content) == [role |-> "human", content |-> content]

EmptyDict == <<>>

\* dict.get(key, default)
Get(d, key, default) == IF key \in DOMAIN d THEN d[key] ELSE default

\* the channels of a thread with no checkpoint: messages (a reducer channel) is []
EmptyState == [k \in {"messages"} |-> <<>>]

\* variant: messages keeps the last value written, like every other channel
ApplyUpdateReplacing(vals, update) ==
    [k \in DOMAIN vals \cup DOMAIN update |->
        IF k \in DOMAIN update THEN update[k] ELSE vals[k]]

\* MedicalState: messages is reduced with add_messages (append), every other
\* channel keeps the last value written
ApplyUpdate(vals, update) ==
    [k \in DOMAIN vals \cup DOMAIN update |->
        IF k = "messages"
        THEN Get(vals, k, <<>>) \o Get(update, k, <<>>)
        ELSE IF k \in DOMAIN update THEN update[k] ELSE vals[k]]

-----------------------------------------------------------------------------
(* External providers (LLM, search): what a call can return *)

\* None, as a provider may return it for PatientRecommendation.follow_up
\* (Optional[str]); no text of the model is this single token
NoneValue == <<"<None>">>

SymptomAnalysis(urgency_level) ==
    [symptom_summary |-> <<"symptom summary">>,
     possible_conditions |-> << <<"condition A">>, <<"condition B">> >>,
     urgency_level |-> urgency_level,
     reasoning |-> <<"reasoning">>]

\* what the analysis provider can return: the SymptomAnalysis of the
\* analyze_symptoms tool, with the research text when the LLM asked for a search
AnalysisResults ==
    {[analysis |-> SymptomAnalysis(LOW), research_info |-> <<>>],
     [analysis |-> SymptomAnalysis(MODERATE),
      research_info |-> <<"Research: ", "search result", "\n">>],
     [analysis |-> SymptomAnalysis(URGENT), research_info |-> <<>>]}

PatientRecommendation(follow_up) ==
    [immediate_actions |-> << <<"rest">> >>,
     general_care |-> << <<"drink water">> >>,
     when_to_seek_help |-> <<"if symptoms worsen">>,
     follow_up |-> follow_up]

\* what the recommendation provider can return: the PatientRecommendation of the
\* create_recommendations tool, with the additional research text
RecommendationResults ==
    {[recommendations |-> PatientRecommendation(<<"in two weeks">>),
      additional_research |-> <<>>],
     [recommendations |-> PatientRecommendation(<<"in two weeks">>),
      additional_research |-> <<"Additional Research: ", "search result", "\n">>],
     [recommendations |-> PatientRecommendation(NoneValue), additional_research |-> <<>>]}

\* create_escalation_advice tool: an EscalationAdvice
EscalationResults ==
    [urgency_message : {<<"seek care now">>},
     immediate_action : {<<"call emergency services">>},
     warning_signs : {<< <<"fainting">> >>},
     emergency_contact : {<<"911">>}]

-----------------------------------------------------------------------------
(* The nodes: state -> partial update *)

\* variant: without a message in the state the node returns an empty update
collect_patient_info_silent(state) ==
    LET messages == Get(state, "messages", <<>>) IN
    IF Truthy(messages)
    THEN [symptoms |-> messages[Len(messages)].content,
          medical_history |-> Get(state, "medical_history", NoMedicalHistory),
          messages |-> <<AIMessage(<<"Patient information collected successfully">>)>>]
    ELSE EmptyDict

collect_patient_info(state) ==
    LET messages == Get(state, "messages", <<>>) IN
    IF Truthy(messages)
    THEN [symptoms |-> messages[Len(messages)].content,
          medical_history |-> Get(state, "medical_history", NoMedicalHistory),
          messages |-> <<AIMessage(<<"Patient information collected successfully">>)>>]
    ELSE [messages |-> <<AIMessage(<<"No patient information found">>)>>]

\* whether analyze_symptoms_node reaches its provider calls
AnalysisCallsProvider(state) == Truthy(Get(state, "symptoms", <<>>))

\* variant: the analysis is stored without its top-level copy of the urgency
analyze_symptoms_node_without_copy(state, result) ==
    IF ~Truthy(Get(state, "symptoms", <<>>))
    THEN [messages |-> <<AIMessage(<<"No symptoms provided for analysis">>)>>]
    ELSE [symptom_analysis |-> result.analysis,
          medical_research |->
              IF Truthy(result.research_info) THEN result.research_info
              ELSE <<"No additional research needed">>,
          messages |-> <<AIMessage(<<"Intelligent symptom analysis completed. Urgency level: ">>
                                   \o result.analysis.urgency_level)>>]

analyze_symptoms_node(state, result) ==
    LET symptoms == Get(state, "symptoms", <<>>)
        analysis_result == result.analysis
        research_info == result.research_info
        analysis_dict ==
            [symptom_summary |-> analysis_result.symptom_summary,
             possible_conditions |-> analysis_result.possible_conditions,
             urgency_level |-> analysis_result.urgency_level,
             reasoning |-> analysis_result.reasoning]
    IN
    IF ~Truthy(symptoms)
    THEN [messages |-> <<AIMessage(<<"No symptoms provided for analysis">>)>>]
    ELSE [symptom_analysis |-> analysis_dict,
          urgency_level |-> analysis_result.urgency_level,
          medical_research |->
              IF Truthy(research_info) THEN research_info
              ELSE <<"No additional research needed">>,
          messages |-> <<AIMessage(<<"Intelligent symptom analysis completed. Urgency level: ">>
                                   \o analysis_result.urgency_level)>>]

\* repr of a str
Repr(item) == <<"'">> \o item \o <<"'">>

RECURSIVE JoinRepr(_)
JoinRepr(l) ==
    IF l = <<>> THEN <<>>
    ELSE IF Len(l) = 1 THEN Repr(Head(l))
    ELSE Repr(Head(l)) \o <<", ">> \o JoinRepr(Tail(l))

\* str(list)
StrList(l) == <<"[">> \o JoinRepr(l) \o <<"]">>

\* the payload of interrupt(): built from the analysis in the state
InterruptMessage(analysis) ==
    <<"Based on the symptom analysis, do you have relevant medical history (medications, conditions, allergies, surgeries, family history) that might help improve the recommendations?\n\nCurrent analysis:\n",
      "- Summary: ">> \o Get(analysis, "symptom_summary", <<"N/A">>)
    \o <<"\n", "- Urgency: ">> \o Get(analysis, "urgency_level", <<"N/A">>)
    \o <<"\n", "- Possible conditions: ">>
    \o StrList(Get(analysis, "possible_conditions", <<>>))
    \o <<"\n\n", "Enter your medical history (or 'no'/'none' if not applicable):">>

\* the answers that mean "no medical history"
DeclineWords == {<<"n", "o">>, <<"n", "o", "n", "e">>, <<"n", "/", "a">>, <<>>}

\* variant: the answer is compared without lower-casing
HistoryGivenCaseSensitive(user_input) ==
    Truthy(user_input) /\ Strip(user_input) \notin DeclineWords

\* whether the answer is kept as the medical history
HistoryGiven(user_input) ==
    Truthy(user_input) /\ Lower(Strip(user_input)) \notin DeclineWords

\* variant: every answer is taken as "no medical history"
ProcessUserInputDeclined(user_input) ==
    [medical_history |-> NoAdditionalHistory,
     messages |-> <<AIMessage(<<"No additional medical history provided">>)>>]

\* collect_medical_history, past interrupt(): user_input is the resume value
ProcessUserInput(user_input) ==
    IF HistoryGiven(user_input)
    THEN [medical_history |-> Strip(user_input),
          messages |-> <<AIMessage(<<"Medical history collected: ">> \o Strip(user_input))>>]
    ELSE [medical_history |-> NoAdditionalHistory,
          messages |-> <<AIMessage(<<"No additional medical history provided">>)>>]

\* variant: no interrupt(), a missing resume value is read as the empty answer
collect_medical_history_no_interrupt(state, resume) ==
    LET analysis == Get(state, "symptom_analysis", EmptyDict) IN
    IF ~Truthy(analysis)
    THEN [kind |-> "update",
          update |-> [messages |-> <<AIMessage(
              <<"No symptom analysis available for medical history collection">>)>>]]
    ELSE [kind |-> "update",
          update |-> ProcessUserInput(IF resume = <<>> THEN <<>> ELSE resume[1])]

\* collect_medical_history: resume is <<>> (no resume value) or <<value>>.
\* Either an update, or the interrupt that suspends the run.
collect_medical_history(state, resume) ==
    LET analysis == Get(state, "symptom_analysis", EmptyDict) IN
    IF ~Truthy(analysis)
    THEN [kind |-> "update",
          update |-> [messages |-> <<AIMessage(
              <<"No symptom analysis available for medical history collection">>)>>]]
    ELSE IF resume = <<>>
    THEN [kind |-> "interrupt", value |-> InterruptMessage(analysis)]
    ELSE [kind |-> "update", update |-> ProcessUserInput(resume[1])]

\* whether create_recommendations_node reaches its provider calls
RecommendationCallsProvider(state) == Truthy(Get(state, "symptom_analysis", EmptyDict))

create_recommendations_node(state, result) ==
    LET analysis == Get(state, "symptom_analysis", EmptyDict)
        medical_research == Get(state, "medical_research", <<>>)
        recommendations_result == result.recommendations
        additional_research == result.additional_research
        recommendations_dict ==
            [immediate_actions |-> recommendations_result.immediate_actions,
             general_care |-> recommendations_result.general_care,
             when_to_seek_help |-> recommendations_result.when_to_seek_help,
             follow_up |-> recommendations_result.follow_up]
        updated_research ==
            IF Truthy(additional_research)
            THEN medical_research \o <<"\n">> \o additional_research
            ELSE medical_research
    IN
    IF ~Truthy(analysis)
    THEN [messages |-> <<AIMessage(<<"No symptom analysis available for recommendations">>)>>]
    ELSE [recommendations |-> recommendations_dict,
          medical_research |-> updated_research,
          messages |-> <<AIMessage(
              <<"Comprehensive patient recommendations generated successfully">>)>>]

\* whether escalation_advice_node reaches its provider call
EscalationCallsProvider(state) ==
    /\ Get(state, "urgency_level", LOW) = URGENT
    /\ Truthy(Get(state, "symptom_analysis", EmptyDict))
    /\ Truthy(Get(state, "recommendations", EmptyDict))

\* variant: the escalation step also writes urgency_level
escalation_advice_node_setting_urgency(state, response) ==
    IF Get(state, "urgency_level", LOW) # URGENT
    THEN [messages |-> <<AIMessage(<<"Case not urgent - escalation advice not needed">>)>>]
    ELSE IF ~Truthy(Get(state, "symptom_analysis", EmptyDict))
            \/ ~Truthy(Get(state, "recommendations", EmptyDict))
    THEN [messages |-> <<AIMessage(<<"Insufficient data for escalation advice">>)>>]
    ELSE [escalation_advice |-> response,
          urgency_level |-> URGENT,
          messages |-> <<AIMessage(<<"Urgent escalation advice generated">>)>>]

escalation_advice_node(state, response) ==
    LET analysis == Get(state, "symptom_analysis", EmptyDict)
        recommendations == Get(state, "recommendations", EmptyDict)
        urgency_level == Get(state, "urgency_level", LOW)
        escalation_dict ==
            [urgency_message |-> response.urgency_message,
             immediate_action |-> response.immediate_action,
             warning_signs |-> response.warning_signs,
             emergency_contact |-> response.emergency_contact]
    IN
    IF urgency_level # URGENT
    THEN [messages |-> <<AIMessage(<<"Case not urgent - escalation advice not needed">>)>>]
    ELSE IF ~Truthy(analysis) \/ ~Truthy(recommendations)
    THEN [messages |-> <<AIMessage(<<"Insufficient data for escalation advice">>)>>]
    ELSE [escalation_advice |-> escalation_dict,
          messages |-> <<AIMessage(<<"Urgent escalation advice generated">>)>>]

\* variant: every urgency but "low" escalates
should_escalate_unless_low(state) ==
    IF Get(state, "urgency_level", LOW) # LOW
    THEN "escalation_advice_node"
    ELSE "generate_medical_report"

\* the conditional edge after create_recommendations_node
should_escalate(state) ==
    IF Get(state, "urgency_level", LOW) = URGENT
    THEN "escalation_advice_node"
    ELSE "generate_medical_report"

-----------------------------------------------------------------------------
(* generate_medical_report: the report text and the file name *)

\* datetime.now().strftime(fmt): the format and the instant
strftime(now, fmt) == <<fmt, ToString(now)>>

RECURSIVE Numbered(_, _)
\* for i, item in enumerate(items, i): str(i) + ". " + item + "\n"
Numbered(items, i) ==
    IF items = <<>> THEN <<>>
    ELSE <<ToString(i), ". ">> \o Head(items) \o <<"\n">> \o Numbered(Tail(items), i + 1)

EscalationHeading == "\n## URGENT ESCALATION ADVICE\n"

\* the escalation section, written when the state's escalation_advice is truthy
EscalationSection(escalation) ==
    IF Truthy(escalation)
    THEN <<EscalationHeading, "**Urgency Message:** ">>
         \o Get(escalation, "urgency_message", <<"N/A">>)
         \o <<"\n", "**Immediate Action:** ">>
         \o Get(escalation, "immediate_action", <<"N/A">>)
         \o <<"\n\n", "**Warning Signs:**\n">>
         \o Numbered(Get(escalation, "warning_signs", <<>>), 1)
         \o <<"\n**Emergency Contact:** ">>
         \o Get(escalation, "emergency_contact", <<"N/A">>) \o <<"\n">>
    ELSE <<>>

Disclaimer ==
    <<"\n---\n",
      "**IMPORTANT DISCLAIMER:** This analysis is for educational purposes only and is NOT a substitute for professional medical advice, diagnosis, or treatment. Always consult healthcare professionals for medical concerns.\n">>

\* variant: the escalation section is written after the disclaimer
ReportContentEscalationLast(state, now) ==
    LET analysis == Get(state, "symptom_analysis", EmptyDict)
        recommendations == Get(state, "recommendations", EmptyDict)
        escalation == Get(state, "escalation_advice", EmptyDict)
        symptoms == Get(state, "symptoms", <<>>)
        medical_history == Get(state, "medical_history", <<>>)
    IN
    <<"# MediCheck AI - Medical Analysis Report\n\n", "**Generated:** ">>
    \o strftime(now, "%Y-%m-%d %H:%M:%S")
    \o <<"\n\n", "## Patient Information\n", "**Reported Symptoms:** ">> \o symptoms
    \o <<"\n", "**Medical History:** ">> \o medical_history
    \o <<"\n\n", "## Symptom Analysis\n", "**Summary:** ">>
    \o Get(analysis, "symptom_summary", <<"N/A">>)
    \o <<"\n\n", "**Possible Conditions:**\n">>
    \o Numbered(Get(analysis, "possible_conditions", <<>>), 1)
    \o <<"\n**Urgency Level:** ">> \o Upper(Get(analysis, "urgency_level", <<"N/A">>))
    \o <<"\n", "**Reasoning:** ">> \o Get(analysis, "reasoning", <<"N/A">>)
    \o <<"\n\n", "## Recommendations\n\n", "**Immediate Actions:**\n">>
    \o Numbered(Get(recommendations, "immediate_actions", <<>>), 1)
    \o <<"\n**General Self-Care:**\n">>
    \o Numbered(Get(recommendations, "general_care", <<>>), 1)
    \o <<"\n**When to Seek Help:** ">> \o Get(recommendations, "when_to_seek_help", <<"N/A">>)
    \o <<"\n", "**Follow-up:** ">> \o Get(recommendations, "follow_up", <<"N/A">>) \o <<"\n">>
    \o Disclaimer
    \o EscalationSection(escalation)

ReportContent(state, now) ==
    LET analysis == Get(state, "symptom_analysis", EmptyDict)
        recommendations == Get(state, "recommendations", EmptyDict)
        escalation == Get(state, "escalation_advice", EmptyDict)
        symptoms == Get(state, "symptoms", <<>>)
        medical_history == Get(state, "medical_history", <<>>)
    IN
    <<"# MediCheck AI - Medical Analysis Report\n\n", "**Generated:** ">>
    \o strftime(now, "%Y-%m-%d %H:%M:%S")
    \o <<"\n\n", "## Patient Information\n", "**Reported Symptoms:** ">> \o symptoms
    \o <<"\n", "**Medical History:** ">> \o medical_history
    \o <<"\n\n", "## Symptom Analysis\n", "**Summary:** ">>
    \o Get(analysis, "symptom_summary", <<"N/A">>)
    \o <<"\n\n", "**Possible Conditions:**\n">>
    \o Numbered(Get(analysis, "possible_conditions", <<>>), 1)
    \o <<"\n**Urgency Level:** ">> \o Upper(Get(analysis, "urgency_level", <<"N/A">>))
    \o <<"\n", "**Reasoning:** ">> \o Get(analysis, "reasoning", <<"N/A">>)
    \o <<"\n\n", "## Recommendations\n\n", "**Immediate Actions:**\n">>
    \o Numbered(Get(recommendations, "immediate_actions", <<>>), 1)
    \o <<"\n**General Self-Care:**\n">>
    \o Numbered(Get(recommendations, "general_care", <<>>), 1)
    \o <<"\n**When to Seek Help:** ">> \o Get(recommendations, "when_to_seek_help", <<"N/A">>)
    \o <<"\n", "**Follow-up:** ">> \o Get(recommendations, "follow_up", <<"N/A">>) \o <<"\n">>
    \o EscalationSection(escalation)
    \o Disclaimer

\* str + None: building the report raises TypeError when follow_up is None
ReportRaises(state) ==
    Get(Get(state, "recommendations", EmptyDict), "follow_up", <<"N/A">>) = NoneValue

\* \w of Python's re on str: letters, digits and underscore of any script
WordChars ==
    {"a", "b", "c", "d", "e", "f", "g", "h", "i", "j", "k", "l", "m", "n", "o", "p", "q",
     "r", "s", "t", "u", "v", "w", "x", "y", "z",
     "A", "B", "C", "E", "L", "N", "O", "S",
     "0", "1", "2", "9", "_", "é"}

\* variant: the text is not cut
TruncateNothing(s, n) == s

\* symptoms[:30]
Truncate(s, n) == SubSeq(s, 1, IF Len(s) < n THEN Len(s) ELSE n)

\* variant: no character is removed
RemoveNothing(s) == s

\* re.sub(r'[^\w\s-]', '', s)
RemoveSpecial(s) == SelectSeq(s, LAMBDA ch : ch \in WordChars \cup Whitespace \cup {"-"})

RECURSIVE CollapseRuns(_)
\* re.sub(r'[-\s]+', '_', s)
CollapseRuns(s) ==
    IF s = <<>> THEN <<>>
    ELSE IF Head(s) \in Whitespace \cup {"-"}
    THEN IF Len(s) > 1 /\ s[2] \in Whitespace \cup {"-"}
         THEN CollapseRuns(Tail(s))
         ELSE <<"_">> \o CollapseRuns(Tail(s))
    ELSE <<Head(s)>> \o CollapseRuns(Tail(s))

PreviewLength == 30

\* "recursion_limit": 50 of the drivers' thread configuration
recursion_limit == 50

\* variant: the text is cleaned before it is cut to its first characters
symptom_preview_clean_first(symptoms) ==
    CollapseRuns(Truncate(RemoveSpecial(symptoms), PreviewLength))

symptom_preview(symptoms) == CollapseRuns(RemoveSpecial(Truncate(symptoms, PreviewLength)))

\* os.path.join("medical_reports", "medical_analysis_" + timestamp + "_" + preview + ".md")
ReportFilepath(state, now) ==
    <<"medical_reports/", "medical_analysis_">> \o strftime(now, "%Y%m%d_%H%M%S")
    \o <<"_">> \o symptom_preview(Get(state, "symptoms", <<>>)) \o <<".md">>

generate_medical_report(state, now) ==
    [final_report |-> ReportContent(state, now),
     report_filepath |-> ReportFilepath(state, now),
     messages |-> <<AIMessage(<<"Medical analysis complete! Report saved to: ">>
                              \o ReportFilepath(state, now))>>]

-----------------------------------------------------------------------------
(* The graph: medcheck_builder's edges *)

START == "__start__"
END == "__end__"
INTERRUPT == "__interrupt__"
RESUME == "__resume__"
SUBMIT == "__submit__"

Nodes ==
    {"collect_patient_info", "analyze_symptoms_node", "collect_medical_history",
     "create_recommendations_node", "escalation_advice_node", "generate_medical_report"}

\* variant: no edge into collect_medical_history
SuccessorSkipHistory(node, state) ==
    CASE node = START -> "collect_patient_info"
      [] node = "collect_patient_info" -> "analyze_symptoms_node"
      [] node = "analyze_symptoms_node" -> "create_recommendations_node"
      [] node = "collect_medical_history" -> "create_recommendations_node"
      [] node = "create_recommendations_node" -> should_escalate(state)
      [] node = "escalation_advice_node" -> "generate_medical_report"
      [] node = "generate_medical_report" -> END

\* variant: the recommendations come before the medical history
SuccessorHistoryLast(node, state) ==
    CASE node = START -> "collect_patient_info"
      [] node = "collect_patient_info" -> "analyze_symptoms_node"
      [] node = "analyze_symptoms_node" -> "create_recommendations_node"
      [] node = "create_recommendations_node" -> "collect_medical_history"
      [] node = "collect_medical_history" -> should_escalate(state)
      [] node = "escalation_advice_node" -> "generate_medical_report"
      [] node = "generate_medical_report" -> END

\* variant: the urgent path ends at escalation_advice_node
SuccessorEscalationEnds(node, state) ==
    CASE node = START -> "collect_patient_info"
      [] node = "collect_patient_info" -> "analyze_symptoms_node"
      [] node = "analyze_symptoms_node" -> "collect_medical_history"
      [] node = "collect_medical_history" -> "create_recommendations_node"
      [] node = "create_recommendations_node" -> should_escalate(state)
      [] node = "escalation_advice_node" -> END
      [] node = "generate_medical_report" -> END

\* the node scheduled after `node` completes, on the state its update gave
\* variant: the report step leads back to the first step
SuccessorLooping(node, state) ==
    CASE node = START -> "collect_patient_info"
      [] node = "collect_patient_info" -> "analyze_symptoms_node"
      [] node = "analyze_symptoms_node" -> "collect_medical_history"
      [] node = "collect_medical_history" -> "create_recommendations_node"
      [] node = "create_recommendations_node" -> should_escalate(state)
      [] node = "escalation_advice_node" -> "generate_medical_report"
      [] node = "generate_medical_report" -> "collect_patient_info"

Successor(node, state) ==
    CASE node = START -> "collect_patient_info"
      [] node = "collect_patient_info" -> "analyze_symptoms_node"
      [] node = "analyze_symptoms_node" -> "collect_medical_history"
      [] node = "collect_medical_history" -> "create_recommendations_node"
      [] node = "create_recommendations_node" -> should_escalate(state)
      [] node = "escalation_advice_node" -> "generate_medical_report"
      [] node = "generate_medical_report" -> END

-----------------------------------------------------------------------------
(* The compiled graph with its MemorySaver: stream(), one node per step *)

Sessions == {"ui1", "ui2"}

\* callers of medcheck_agent that run side by side: callerA and callerB with
\* thread ids of their own, callerA2 with the thread id of callerA
PairClients == {"callerA", "callerA2", "callerB"}

\* reuser: a caller of medcheck_agent that answers the history prompt with
\* " none " and runs one analysis after another on its thread id
Clients == {"console", "caller", "reuser"} \cup Sessions \cup PairClients

\* variant: the callers that run side by side all use one thread id
ThreadOfAll(c) ==
    CASE c = "console" -> "1"
      [] c \in Sessions -> "streamlit_session"
      [] c = "caller" -> "direct"
      [] c \in PairClients -> "A"
      [] c = "reuser" -> "R"

\* config["configurable"]["thread_id"] of each client
Thread(c) ==
    CASE c = "console" -> "1"
      [] c \in Sessions -> "streamlit_session"
      [] c = "caller" -> "direct"
      [] c \in {"callerA", "callerA2"} -> "A"
      [] c = "callerB" -> "B"
      [] c = "reuser" -> "R"

Threads == {"1", "streamlit_session", "direct", "A", "B", "R"}

\* how many events of one client are followed
EventBound(c) ==
    IF c = "callerA2" THEN MaxResumerEvents
    ELSE IF c = "reuser" THEN MaxReuseEvents
    ELSE IF c \in PairClients THEN MaxPairEvents ELSE MaxEvents

NoCheckpoint == [exists |-> FALSE, vals |-> EmptyState, next |-> END, interrupt |-> <<>>]

NoRun ==
    [active |-> FALSE, error |-> FALSE, vals |-> EmptyState, next |-> END,
     resume |-> <<>>, base |-> EmptyState, files |-> <<>>]

\* variant: get_state(config).next is always read as empty
HasNextNever(t) == FALSE

\* medcheck_agent.get_state(config).next is non-empty
HasNext(t) == cp[t].next # END

\* stream(input, config): the input is written over the thread's saved channels,
\* what was pending is discarded and the run starts from START
StreamInput(c, input) ==
    LET t == Thread(c)
        vals == ApplyUpdate(cp[t].vals, input)
    IN
    /\ Len(hist[c]) < EventBound(c)
    /\ cp' = [cp EXCEPT ![t] =
                 [exists |-> TRUE, vals |-> vals, next |-> Successor(START, vals),
                  interrupt |-> <<>>]]
    /\ run' = [run EXCEPT ![c] =
                 [active |-> TRUE, error |-> FALSE, vals |-> vals,
                  next |-> Successor(START, vals), resume |-> <<>>, base |-> cp[t].vals,
                  files |-> files]]
    /\ hist' = [hist EXCEPT ![c] = Append(@, START)]

\* variant: a resume runs the graph again from START
StreamResumeFromStart(c, value) ==
    LET t == Thread(c) IN
    /\ Len(hist[c]) < EventBound(c)
    /\ run' = [run EXCEPT ![c] =
                 [active |-> TRUE, error |-> FALSE, vals |-> cp[t].vals,
                  next |-> Successor(START, cp[t].vals), resume |-> <<value>>,
                  base |-> cp[t].vals, files |-> files]]
    /\ hist' = [hist EXCEPT ![c] = Append(@, RESUME)]
    /\ UNCHANGED cp

\* variant: the run continues from the checkpoint without the resume value
StreamResumeWithoutValue(c, value) ==
    LET t == Thread(c) IN
    /\ Len(hist[c]) < EventBound(c)
    /\ run' = [run EXCEPT ![c] =
                 [active |-> TRUE, error |-> FALSE, vals |-> cp[t].vals,
                  next |-> cp[t].next, resume |-> <<>>,
                  base |-> cp[t].vals, files |-> files]]
    /\ hist' = [hist EXCEPT ![c] = Append(@, RESUME)]
    /\ UNCHANGED cp

\* stream(Command(resume=value), config): the run continues from the thread's
\* checkpoint, with the value for the interrupt() of the pending node
StreamResume(c, value) ==
    LET t == Thread(c) IN
    /\ IF HasNext(t)
       THEN /\ Len(hist[c]) < EventBound(c)
            /\ run' = [run EXCEPT ![c] =
                         [active |-> TRUE, error |-> FALSE, vals |-> cp[t].vals,
                          next |-> cp[t].next, resume |-> <<value>>,
                          base |-> cp[t].vals, files |-> files]]
            /\ hist' = [hist EXCEPT ![c] = Append(@, RESUME)]
       ELSE /\ run' = [run EXCEPT ![c] =
                         [active |-> FALSE, error |-> FALSE, vals |-> cp[t].vals,
                          next |-> END, resume |-> <<>>, base |-> cp[t].vals,
                          files |-> files]]
            /\ UNCHANGED hist
    /\ UNCHANGED cp

\* a node returned `update`: it is merged, the successor is scheduled, the
\* checkpoint is saved and the driver's loop body sees the event (node, update)
Complete(c, node, update) ==
    LET t == Thread(c)
        vals == ApplyUpdate(run[c].vals, update)
        next == Successor(node, vals)
    IN
    /\ cp' = [cp EXCEPT ![t] =
                 [exists |-> TRUE, vals |-> vals, next |-> next, interrupt |-> <<>>]]
    /\ run' = [run EXCEPT ![c].active = next # END, ![c].vals = vals,
                          ![c].next = next, ![c].resume = <<>>]
    /\ final_state' = [final_state EXCEPT ![c] = update]
    /\ hist' = [hist EXCEPT ![c] = Append(@, node)]

\* variant: a node that raises takes the thread's checkpoint with it
RaiseDropping(c) ==
    /\ cp' = [cp EXCEPT ![Thread(c)] = NoCheckpoint]
    /\ run' = [run EXCEPT ![c].active = FALSE, ![c].error = TRUE]
    /\ UNCHANGED <<final_state, hist>>

\* a node raised: the stream ends with the exception, the checkpoint stays
Raise(c) ==
    /\ run' = [run EXCEPT ![c].active = FALSE, ![c].error = TRUE]
    /\ UNCHANGED <<cp, final_state, hist>>

\* variant: the interrupt is recorded and the successor becomes the pending node
SuspendAdvancing(c, value) ==
    LET t == Thread(c) IN
    /\ cp' = [cp EXCEPT ![t].interrupt = <<value>>,
                        ![t].next = Successor(run[c].next, run[c].vals)]
    /\ run' = [run EXCEPT ![c].active = FALSE]
    /\ final_state' = [final_state EXCEPT ![c] = [k \in {INTERRUPT} |-> value]]
    /\ hist' = [hist EXCEPT ![c] = Append(@, INTERRUPT)]

\* interrupt() without a resume value: the interrupt is recorded on the run's
\* checkpoint, the driver sees the event __interrupt__ and the stream ends
Suspend(c, value) ==
    LET t == Thread(c) IN
    /\ cp' = IF cp[t].vals = run[c].vals /\ cp[t].next = run[c].next
             THEN [cp EXCEPT ![t].interrupt = <<value>>]
             ELSE cp
    /\ run' = [run EXCEPT ![c].active = FALSE]
    /\ final_state' = [final_state EXCEPT ![c] = [k \in {INTERRUPT} |-> value]]
    /\ hist' = [hist EXCEPT ![c] = Append(@, INTERRUPT)]

At(c, node) == run[c].active /\ run[c].next = node /\ Len(hist[c]) < EventBound(c)

DriverVars == <<con, ss, ui>>

CollectPatientInfo(c) ==
    /\ At(c, "collect_patient_info")
    /\ Complete(c, "collect_patient_info", collect_patient_info(run[c].vals))
    /\ UNCHANGED <<files, clock, search, DriverVars>>

AnalyzeSymptomsNode(c) ==
    /\ At(c, "analyze_symptoms_node")
    /\ \/ \E result \in AnalysisResults :
             Complete(c, "analyze_symptoms_node", analyze_symptoms_node(run[c].vals, result))
       \/ /\ AnalysisCallsProvider(run[c].vals)
          /\ Raise(c)
    /\ UNCHANGED <<files, clock, search, DriverVars>>

CollectMedicalHistory(c) ==
    /\ At(c, "collect_medical_history")
    /\ LET r == collect_medical_history(run[c].vals, run[c].resume) IN
       IF r.kind = "interrupt"
       THEN Suspend(c, r.value)
       ELSE Complete(c, "collect_medical_history", r.update)
    /\ UNCHANGED <<files, clock, search, DriverVars>>

CreateRecommendationsNode(c) ==
    /\ At(c, "create_recommendations_node")
    /\ \/ \E result \in RecommendationResults :
             Complete(c, "create_recommendations_node",
                      create_recommendations_node(run[c].vals, result))
       \/ /\ RecommendationCallsProvider(run[c].vals)
          /\ Raise(c)
    /\ UNCHANGED <<files, clock, search, DriverVars>>

EscalationAdviceNode(c) ==
    /\ At(c, "escalation_advice_node")
    /\ \/ \E response \in EscalationResults :
             Complete(c, "escalation_advice_node",
                      escalation_advice_node(run[c].vals, response))
       \/ /\ EscalationCallsProvider(run[c].vals)
          /\ Raise(c)
    /\ UNCHANGED <<files, clock, search, DriverVars>>

\* the report is built, written to its file and returned; building it or
\* writing the file may raise
GenerateMedicalReport(c) ==
    /\ At(c, "generate_medical_report")
    /\ \E now \in clock..MaxClock :
          /\ clock' = now
          /\ \/ /\ ~ReportRaises(run[c].vals)
                /\ files' = [f \in DOMAIN files \cup {ReportFilepath(run[c].vals, now)} |->
                                IF f = ReportFilepath(run[c].vals, now)
                                THEN ReportContent(run[c].vals, now)
                                ELSE files[f]]
                /\ Complete(c, "generate_medical_report",
                            generate_medical_report(run[c].vals, now))
             \/ /\ UNCHANGED files
                /\ Raise(c)
    /\ UNCHANGED <<DriverVars, search>>

Node(c) ==
    \/ CollectPatientInfo(c)
    \/ AnalyzeSymptomsNode(c)
    \/ CollectMedicalHistory(c)
    \/ CreateRecommendationsNode(c)
    \/ EscalationAdviceNode(c)
    \/ GenerateMedicalReport(c)

-----------------------------------------------------------------------------
(* What the users type *)

\* answers to the symptoms prompt
SymptomInputs == {Headache, ChestPain, <<>>, <<" ">>}

\* answers to the console's medical history prompt
HistoryInputs ==
    {<<"n", "o">>, <<"N", "O">>, <<" ", "n", "o", "n", "e", " ">>, <<>>, <<"n", "/", "a">>,
     <<" ">>, <<"n", "o", " ", "a", "l", "l", "e", "r", "g", "i", "e", "s">>,
     <<" ", "N", "o", "n", "e", " ", "a", "t", " ", "A", "L", "L", "\n">>}

\* medical history texts of the Streamlit text area and of the direct caller
ResumeValues ==
    {<<"n", "o", " ", "a", "l", "l", "e", "r", "g", "i", "e", "s">>,
     <<" ", "n", "o", "n", "e", " ">>, <<>>}

\* initial_state of both drivers
InitialState(symptoms) ==
    [messages |-> <<HumanMessage(symptoms)>>,
     symptoms |-> symptoms,
     medical_history |-> NoMedicalHistory]

-----------------------------------------------------------------------------
(* The console driver: main() *)

\* variant: the prompt for symptoms starts the workflow with any text
ConsoleStartUnchecked ==
    /\ con.pc = "prompt"
    /\ \E symptoms \in SymptomInputs :
          /\ StreamInput("console", InitialState(symptoms))
          /\ final_state' = [final_state EXCEPT !["console"] = EmptyDict]
          /\ con' = [con EXCEPT !.pc = "stream", !.symptoms = symptoms]
    /\ UNCHANGED <<files, clock, search, ss, ui>>

\* the prompt for symptoms: blank symptoms end the program, others start the workflow
ConsoleStart ==
    /\ con.pc = "prompt"
    /\ \E symptoms \in SymptomInputs :
          IF Strip(symptoms) = <<>>
          THEN /\ con' = [con EXCEPT !.pc = "exited", !.exit = 0]
               /\ UNCHANGED <<cp, run, final_state, hist>>
          ELSE /\ StreamInput("console", InitialState(symptoms))
               /\ final_state' = [final_state EXCEPT !["console"] = EmptyDict]
               /\ con' = [con EXCEPT !.pc = "stream", !.symptoms = symptoms]
    /\ UNCHANGED <<files, clock, search, ss, ui>>

\* "Display final results"
ConsoleDisplay ==
    con' = [con EXCEPT !.pc = "exited", !.exit = 0,
                       !.complete = /\ Truthy(final_state["console"])
                                    /\ "final_report" \in DOMAIN final_state["console"]]

\* the first stream has ended: get_state(); with a pending node the user is
\* asked for the medical history and the workflow is resumed with the answer
ConsoleGetState ==
    /\ con.pc = "stream"
    /\ ~run["console"].active /\ ~run["console"].error
    /\ IF HasNext(Thread("console"))
       THEN \E user_input \in HistoryInputs :
               /\ StreamResume("console", user_input)
               /\ con' = [con EXCEPT !.pc = "resumed", !.user_input = user_input]
       ELSE ConsoleDisplay /\ UNCHANGED <<cp, run, hist>>
    /\ UNCHANGED <<final_state, files, clock, search, ss, ui>>

\* the resume stream has ended
ConsoleFinish ==
    /\ con.pc = "resumed"
    /\ ~run["console"].active /\ ~run["console"].error
    /\ ConsoleDisplay
    /\ UNCHANGED <<cp, run, final_state, hist, files, clock, search, ss, ui>>

\* variant: the handler of Exception exits with status zero
ConsoleExceptionExitZero ==
    /\ con.pc \in {"stream", "resumed"}
    /\ run["console"].error
    /\ con' = [con EXCEPT !.pc = "exited", !.exit = 0]
    /\ UNCHANGED <<cp, run, final_state, hist, files, clock, search, ss, ui>>

\* except Exception: sys.exit(1)
ConsoleException ==
    /\ con.pc \in {"stream", "resumed"}
    /\ run["console"].error
    /\ con' = [con EXCEPT !.pc = "exited", !.exit = 1]
    /\ UNCHANGED <<cp, run, final_state, hist, files, clock, search, ss, ui>>

\* except KeyboardInterrupt: sys.exit(0)
ConsoleKeyboardInterrupt ==
    /\ con.pc # "exited"
    /\ ~run["console"].error
    /\ con' = [con EXCEPT !.pc = "exited", !.exit = 0, !.cancelled = TRUE]
    /\ run' = [run EXCEPT !["console"].active = FALSE]
    /\ UNCHANGED <<cp, final_state, hist, files, clock, search, ss, ui>>

-----------------------------------------------------------------------------
(* The Streamlit driver: one script run per user interaction *)

\* initialize_session_state(), also what st.session_state.clear() leads to
FreshSession ==
    [workflow_started |-> FALSE, final_state |-> EmptyDict, analysis_complete |-> FALSE,
     awaiting_history |-> FALSE, symptoms |-> <<>>]

\* "Start Analysis": disabled for blank symptoms
UiStartAnalysis(s) ==
    /\ ui[s].pc = "idle" /\ ui[s].page = "form"
    /\ \E symptoms \in SymptomInputs :
          /\ Strip(symptoms) # <<>>
          /\ ss' = [ss EXCEPT ![s].symptoms = symptoms, ![s].workflow_started = TRUE,
                              ![s].analysis_complete = FALSE]
    /\ ui' = [ui EXCEPT ![s].pc = "rerun", ![s].submitted = <<>>]
    /\ Len(hist[s]) < EventBound(s)
    /\ hist' = [hist EXCEPT ![s] = Append(@, SUBMIT)]
    /\ UNCHANGED <<cp, run, final_state, files, clock, search, con>>

\* any interaction that reruns the script (editing the text area, the rerun key)
UiRerun(s) ==
    /\ ui[s].pc = "idle" /\ ss[s].workflow_started
    /\ ui' = [ui EXCEPT ![s].pc = "rerun", ![s].submitted = <<>>]
    /\ UNCHANGED <<cp, run, final_state, files, clock, search, con, ss, hist>>

\* "Continue Analysis" under the medical history prompt
UiContinue(s) ==
    /\ ui[s].pc = "idle" /\ ui[s].page = "prompt"
    /\ \E text \in ResumeValues :
          ui' = [ui EXCEPT ![s].pc = "rerun", ![s].submitted = <<text>>]
    /\ UNCHANGED <<cp, run, final_state, files, clock, search, con, ss, hist>>

\* "Start New Analysis": st.session_state.clear() and the form again
UiStartNew(s) ==
    /\ ui[s].pc = "idle" /\ ui[s].page = "results"
    /\ ss' = [ss EXCEPT ![s] = FreshSession]
    /\ ui' = [ui EXCEPT ![s].page = "form", ![s].submitted = <<>>]
    /\ UNCHANGED <<cp, run, final_state, files, clock, search, con, hist>>

\* "Display final results", with the local final_state of this script run
UiDisplay(s, complete) ==
    IF complete /\ Truthy(final_state[s])
    THEN /\ ss' = [ss EXCEPT ![s].analysis_complete = complete,
                             ![s].final_state = final_state[s],
                             ![s].awaiting_history = FALSE]
         /\ ui' = [ui EXCEPT ![s].pc = "idle", ![s].submitted = <<>>,
                             ![s].page = IF Truthy(Get(final_state[s], "final_report", <<>>))
                                         THEN "results" ELSE "complete"]
    ELSE /\ ss' = [ss EXCEPT ![s].analysis_complete = complete]
         /\ ui' = [ui EXCEPT ![s].pc = "idle", ![s].submitted = <<>>, ![s].page = "blank"]

\* variant: every script run streams the initial state, a finished analysis
\* or not
UiRunWorkflowAlwaysStreaming(s) ==
    /\ ui[s].pc = "rerun"
    /\ ss[s].workflow_started
    /\ StreamInput(s, InitialState(ss[s].symptoms))
    /\ final_state' = [final_state EXCEPT ![s] = EmptyDict]
    /\ ui' = [ui EXCEPT ![s].pc = "stream"]
    /\ UNCHANGED ss
    /\ UNCHANGED <<files, clock, search, con>>

\* run_workflow(): a finished analysis is rendered from the session state, any
\* other script run streams the initial state
UiRunWorkflow(s) ==
    /\ ui[s].pc = "rerun"
    /\ ss[s].workflow_started
    /\ IF ss[s].analysis_complete /\ Truthy(ss[s].final_state)
       THEN /\ ss' = [ss EXCEPT ![s].awaiting_history = FALSE]
            /\ ui' = [ui EXCEPT ![s].pc = "idle", ![s].submitted = <<>>,
                        ![s].page = IF Truthy(Get(ss[s].final_state, "final_report", <<>>))
                                    THEN "results" ELSE "complete"]
            /\ UNCHANGED <<cp, run, final_state, hist>>
       ELSE /\ StreamInput(s, InitialState(ss[s].symptoms))
            /\ final_state' = [final_state EXCEPT ![s] = EmptyDict]
            /\ ui' = [ui EXCEPT ![s].pc = "stream"]
            /\ UNCHANGED ss
    /\ UNCHANGED <<files, clock, search, con>>

\* the first stream has ended: get_state(); with a pending node the prompt is
\* rendered, and when "Continue Analysis" was clicked with a non-blank text the
\* workflow is resumed with it
UiGetState(s) ==
    /\ ui[s].pc = "stream"
    /\ ~run[s].active /\ ~run[s].error
    /\ IF HasNext(Thread(s))
       THEN IF ui[s].submitted # <<>> /\ Strip(ui[s].submitted[1]) # <<>>
            THEN /\ StreamResume(s, Strip(ui[s].submitted[1]))
                 /\ ss' = [ss EXCEPT ![s].awaiting_history = FALSE]
                 /\ ui' = [ui EXCEPT ![s].pc = "resumed"]
            ELSE /\ ss' = [ss EXCEPT ![s].awaiting_history = TRUE]
                 /\ ui' = [ui EXCEPT ![s].pc = "idle", ![s].submitted = <<>>,
                                     ![s].page = "prompt"]
                 /\ UNCHANGED <<cp, run, hist>>
       ELSE UiDisplay(s, TRUE) /\ UNCHANGED <<cp, run, hist>>
    /\ UNCHANGED <<final_state, files, clock, search, con>>

\* the resume stream has ended: analysis_complete = True
UiFinish(s) ==
    /\ ui[s].pc = "resumed"
    /\ ~run[s].active /\ ~run[s].error
    /\ UiDisplay(s, TRUE)
    /\ UNCHANGED <<cp, run, final_state, hist, files, clock, search, con>>

\* except Exception: st.error
UiException(s) ==
    /\ ui[s].pc \in {"stream", "resumed"}
    /\ run[s].error
    /\ ui' = [ui EXCEPT ![s].pc = "idle", ![s].submitted = <<>>, ![s].page = "error"]
    /\ run' = [run EXCEPT ![s].error = FALSE]
    /\ UNCHANGED <<cp, final_state, hist, files, clock, search, con, ss>>

-----------------------------------------------------------------------------
(* A direct caller of medcheck_agent.stream *)

\* MedicalInputState values: the drivers' initial state, no message at all, an
\* empty message, a symptoms field that differs from the message
Inputs ==
    {InitialState(Headache),
     [k \in {"messages"} |-> <<>>],
     InitialState(<<>>),
     [InitialState(ChestPain) EXCEPT !.symptoms = Headache]}

\* a caller of medcheck_agent that starts a run on its thread when nothing is
\* pending there, and resumes with any value at any time
\* the callers that run side by side all submit the drivers' initial state for
\* the same symptoms, and answer the history prompt with the same text
InputsOf(c) ==
    IF c \in PairClients \cup {"reuser"} THEN {InitialState(Headache)} ELSE Inputs

ResumeValuesOf(c) ==
    IF c \in PairClients
    THEN {<<"n", "o", " ", "a", "l", "l", "e", "r", "g", "i", "e", "s">>}
    ELSE IF c = "reuser" THEN {<<" ", "n", "o", "n", "e", " ">>}
    ELSE ResumeValues

Start(c) ==
    /\ ~run[c].active
    /\ ~HasNext(Thread(c))
    /\ \E input \in InputsOf(c) : StreamInput(c, input)
    /\ final_state' = [final_state EXCEPT ![c] = EmptyDict]
    /\ UNCHANGED <<files, clock, search, con, ss, ui>>

Resume(c) ==
    /\ ~run[c].active
    /\ cp[Thread(c)].exists
    /\ \E value \in ResumeValuesOf(c) : StreamResume(c, value)
    /\ UNCHANGED <<final_state, files, clock, search, con, ss, ui>>

CallerStart == Start("caller")

CallerResume == Resume("caller")

-----------------------------------------------------------------------------
(* Specifications *)

(* The search tool: tavily_search and deduplicate_search_results *)

Urls == {"u1", "u2"}
Titles == {"t1", "t2"}

\* one result of a search response
Results == [url : Urls, title : Titles]

\* the responses of tavily_search_multiple: each has a list of results
SearchResponses == [results : UNION {[1..n -> Results] : n \in 0..MaxResults}]

SearchResultInputs == UNION {[1..n -> SearchResponses] : n \in 0..MaxResponses}

\* no search is under way
NoSearch == [pc |-> "idle", search_results |-> <<>>, unique_results |-> <<>>]

\* variant: a result replaces the one kept for its URL
AddUniqueKeepingLast(unique_results, result) ==
    IF \E i \in 1..Len(unique_results) : unique_results[i].url = result.url
    THEN [i \in 1..Len(unique_results) |->
            IF unique_results[i].url = result.url THEN result ELSE unique_results[i]]
    ELSE Append(unique_results, result)

\* if url not in unique_results: unique_results[url] = result
\* (a dict is the sequence of its values in insertion order, the key of a
\* value being its url)
AddUnique(unique_results, result) ==
    IF \E i \in 1..Len(unique_results) : unique_results[i].url = result.url
    THEN unique_results
    ELSE Append(unique_results, result)

RECURSIVE AddResults(_, _)
\* for result in response['results']
AddResults(unique_results, results) ==
    IF results = <<>> THEN unique_results
    ELSE AddResults(AddUnique(unique_results, Head(results)), Tail(results))

RECURSIVE AddResponses(_, _)
\* for response in search_results
AddResponses(unique_results, search_results) ==
    IF search_results = <<>> THEN unique_results
    ELSE AddResponses(AddResults(unique_results, Head(search_results).results),
                      Tail(search_results))

deduplicate_search_results(search_results) == AddResponses(<<>>, search_results)

\* tavily_search: the responses have arrived and are deduplicated
Deduplicate ==
    /\ search.pc = "searched"
    /\ search' = [search EXCEPT !.pc = "deduplicated",
                                !.unique_results = deduplicate_search_results(search.search_results)]
    /\ UNCHANGED <<cp, run, final_state, files, clock, con, ss, ui, hist>>

\* the results kept are given to deduplicate_search_results as one response
DeduplicateAgain ==
    /\ search.pc = "deduplicated"
    /\ search' = [pc |-> "again",
                  search_results |-> <<[results |-> search.unique_results]>>,
                  unique_results |->
                      deduplicate_search_results(<<[results |-> search.unique_results]>>)]
    /\ UNCHANGED <<cp, run, final_state, files, clock, con, ss, ui, hist>>

-----------------------------------------------------------------------------
Init ==
    /\ cp = [t \in Threads |-> NoCheckpoint]
    /\ run = [c \in Clients |-> NoRun]
    /\ final_state = [c \in Clients |-> EmptyDict]
    /\ files = <<>>
    /\ clock = 0
    /\ con = [pc |-> "prompt", symptoms |-> <<>>, user_input |-> <<>>, exit |-> -1,
              complete |-> FALSE, cancelled |-> FALSE]
    /\ ss = [s \in Sessions |-> FreshSession]
    /\ ui = [s \in Sessions |-> [pc |-> "idle", page |-> "form", submitted |-> <<>>]]
    /\ hist = [c \in Clients |-> <<>>]
    /\ search = NoSearch

\* the workflow under a direct caller
Next ==
    \/ CallerStart
    \/ CallerResume
    \/ Node("caller")

Spec == Init /\ [][Next]_vars

\* the console program
NextConsole ==
    \/ ConsoleStart
    \/ ConsoleGetState
    \/ ConsoleFinish
    \/ ConsoleException
    \/ ConsoleKeyboardInterrupt
    \/ Node("console")

SpecConsole == Init /\ [][NextConsole]_vars

\* the console program, where a stream that has a node to execute executes it
SpecConsoleFair == SpecConsole /\ WF_vars(Node("console"))

\* one browser session of the Streamlit program
NextStreamlit ==
    \/ UiStartAnalysis("ui1")
    \/ UiRerun("ui1")
    \/ UiContinue("ui1")
    \/ UiStartNew("ui1")
    \/ UiRunWorkflow("ui1")
    \/ UiGetState("ui1")
    \/ UiFinish("ui1")
    \/ UiException("ui1")
    \/ Node("ui1")

SpecStreamlit == Init /\ [][NextStreamlit]_vars

\* symptoms texts for the report's file name: short ones, and ones that reach
\* past the first PreviewLength characters
FilenameChars == {"a", "é", "!", " ", "-"}

\* "Severe chest pain!! & can't breathe"
SevereChestPain ==
    <<"S", "e", "v", "e", "r", "e", " ", "c", "h", "e", "s", "t", " ", "p", "a", "i",
      "n", "!", "!", " ", "&", " ", "c", "a", "n", "'", "t", " ", "b", "r", "e", "a",
      "t", "h", "e">>

\* "../../etc/passwd"
PathTraversal ==
    <<".", ".", "/", ".", ".", "/", "e", "t", "c", "/", "p", "a", "s", "s", "w", "d">>

\* texts with dots, separators, tabs and line ends
PathSymptoms ==
    {PathTraversal,
     <<"a", ".", "b", "\\", "c", "/", "d">>,
     <<".", " ", "/", "\t", "-", "\n", ".">>,
     [i \in 1..(PreviewLength - 1) |-> "a"] \o <<"/", ".", ".", "/">>}

FilenameSymptoms ==
    {pad \o tail : pad \in {<<>>, [i \in 1..(PreviewLength - 2) |-> "a"]},
                   tail \in UNION {[1..n -> FilenameChars] : n \in 0..MaxTailLen}}
    \cup {SevereChestPain} \cup PathSymptoms

\* the state in which generate_medical_report is entered in the first run on a
\* thread id: the initial state, then the updates of the four nodes before it
StateBeforeReport(symptoms) ==
    LET s0 == ApplyUpdate(EmptyState, InitialState(symptoms))
        s1 == ApplyUpdate(s0, collect_patient_info(s0))
        analysis == [analysis |-> SymptomAnalysis(LOW), research_info |-> <<>>]
        advice == [recommendations |-> PatientRecommendation(<<"in two weeks">>),
                   additional_research |-> <<>>]
        s2 == ApplyUpdate(s1, analyze_symptoms_node(s1, analysis))
        s3 == ApplyUpdate(s2, collect_medical_history(s2, <<<<"n", "o", " ", "a", "l", "l", "e", "r", "g", "i", "e", "s">>>>).update)
        s4 == ApplyUpdate(s3, create_recommendations_node(s3, advice))
    IN [analysed |-> s2, recommended |-> s4,
        suspends |-> collect_medical_history(s2, <<>>).kind = "interrupt",
        update |-> create_recommendations_node(s3, advice)]

\* the caller's run is about to execute generate_medical_report
InitFilename ==
    \E symptoms \in FilenameSymptoms :
        LET b == StateBeforeReport(symptoms) IN
        /\ cp = [t \in Threads |->
                   IF t = "direct"
                   THEN [exists |-> TRUE, vals |-> b.recommended,
                         next |-> Successor("create_recommendations_node", b.recommended),
                         interrupt |-> <<>>]
                   ELSE NoCheckpoint]
        /\ run = [c \in Clients |->
                    IF c = "caller"
                    THEN [active |-> TRUE, error |-> FALSE, vals |-> b.recommended,
                          next |-> Successor("create_recommendations_node", b.recommended),
                          resume |-> <<>>,
                          base |-> IF b.suspends THEN b.analysed ELSE EmptyState,
                          files |-> <<>>]
                    ELSE NoRun]
        /\ final_state = [c \in Clients |-> IF c = "caller" THEN b.update ELSE EmptyDict]
        /\ files = <<>>
        /\ clock = 0
        /\ con = [pc |-> "prompt", symptoms |-> <<>>, user_input |-> <<>>, exit |-> -1,
                  complete |-> FALSE, cancelled |-> FALSE]
        /\ ss = [s \in Sessions |-> FreshSession]
        /\ ui = [s \in Sessions |-> [pc |-> "idle", page |-> "form", submitted |-> <<>>]]
        /\ hist = [c \in Clients |->
                     IF c # "caller" THEN <<>>
                     ELSE IF b.suspends
                     THEN <<START, "collect_patient_info", "analyze_symptoms_node", INTERRUPT,
                            RESUME, "collect_medical_history", "create_recommendations_node">>
                     ELSE <<START, "collect_patient_info", "analyze_symptoms_node",
                            "collect_medical_history", "create_recommendations_node">>]
        /\ search = NoSearch

\* the report step alone, for every symptoms text
NextFilename == GenerateMedicalReport("caller")

SpecFilename == InitFilename /\ [][NextFilename]_vars

\* the search tool called with any responses
InitSearch ==
    \E search_results \in SearchResultInputs :
        /\ cp = [t \in Threads |-> NoCheckpoint]
        /\ run = [c \in Clients |-> NoRun]
        /\ final_state = [c \in Clients |-> EmptyDict]
        /\ files = <<>>
        /\ clock = 0
        /\ con = [pc |-> "prompt", symptoms |-> <<>>, user_input |-> <<>>, exit |-> -1,
                  complete |-> FALSE, cancelled |-> FALSE]
        /\ ss = [s \in Sessions |-> FreshSession]
        /\ ui = [s \in Sessions |-> [pc |-> "idle", page |-> "form", submitted |-> <<>>]]
        /\ hist = [c \in Clients |-> <<>>]
        /\ search = [pc |-> "searched", search_results |-> search_results,
                     unique_results |-> <<>>]

NextSearch ==
    \/ Deduplicate
    \/ DeduplicateAgain

SpecSearch == InitSearch /\ [][NextSearch]_vars

\* either program: a process runs main.py or streamlit_app.py, not both
NextDrivers ==
    \/ hist["ui1"] = <<>> /\ NextConsole
    \/ con.pc = "prompt" /\ NextStreamlit

SpecDrivers == Init /\ [][NextDrivers]_vars

\* one caller that runs analyses one after another on its thread id
NextReuse ==
    \/ Start("reuser")
    \/ Resume("reuser")
    \/ Node("reuser")

SpecReuse == Init /\ [][NextReuse]_vars

\* two callers with distinct thread ids
NextPair ==
    \/ Start("callerA")
    \/ Resume("callerA")
    \/ Node("callerA")
    \/ Start("callerB")
    \/ Resume("callerB")
    \/ Node("callerB")

SpecPair == Init /\ [][NextPair]_vars

\* two callers with the same thread id: callerA starts the runs, both resume
NextSharedThread ==
    \/ Start("callerA")
    \/ Resume("callerA")
    \/ Node("callerA")
    \/ Resume("callerA2")
    \/ Node("callerA2")

SpecSharedThread == Init /\ [][NextSharedThread]_vars

-----------------------------------------------------------------------------
(* What is observed of a behaviour *)

IsPrefix(a, b) == Len(a) <= Len(b) /\ a = SubSeq(b, 1, Len(a))

\* the position of the last e in h, 0 when there is none
LastIndex(h, e) ==
    IF \E i \in 1..Len(h) : h[i] = e
    THEN CHOOSE i \in 1..Len(h) : h[i] = e /\ \A j \in (i + 1)..Len(h) : h[j] # e
    ELSE 0

\* the events after the last e
Since(h, e) == SubSeq(h, LastIndex(h, e) + 1, Len(h))

Count(h, e) == Cardinality({i \in 1..Len(h) : h[i] = e})

\* the thread is suspended: its checkpoint holds an interrupt not yet answered
Suspended(t) == cp[t].interrupt # <<>>

NoAllergies == <<"n", "o", " ", "a", "l", "l", "e", "r", "g", "i", "e", "s">>

-----------------------------------------------------------------------------
(* Properties *)

ExpectedOrder(urgent) ==
    <<START, "collect_patient_info", "analyze_symptoms_node", INTERRUPT, RESUME,
      "collect_medical_history", "create_recommendations_node">>
    \o (IF urgent THEN <<"escalation_advice_node">> ELSE <<>>)
    \o <<"generate_medical_report">>

\* C1: in the console program the events of a run come in the order
\* collect_patient_info, analyze_symptoms_node, suspension, and after the resume
\* collect_medical_history, create_recommendations_node, escalation_advice_node
\* (urgent runs only), generate_medical_report: what has been seen so far is
\* always a prefix of that order and a complete run has seen all of it.
C1_EventOrder ==
    LET h == hist["console"]
        urgent == Get(cp["1"].vals, "urgency_level", LOW) = URGENT
    IN
    /\ IsPrefix(h, ExpectedOrder(urgent))
    /\ con.complete => h = ExpectedOrder(urgent)

C1_UrgentRunComplete ==
    /\ con.complete
    /\ Count(hist["console"], "escalation_advice_node") = 1
    /\ hist["console"][Len(hist["console"])] = "generate_medical_report"

\* C2: when generate_medical_report is about to run, escalation_advice is
\* present and non-empty in the state exactly when urgency_level is "urgent".
C2_EscalationIffUrgent ==
    LET r == run["caller"] IN
    (r.active /\ r.next = "generate_medical_report") =>
        (Truthy(Get(r.vals, "escalation_advice", EmptyDict))
            <=> ("urgency_level" \in DOMAIN r.vals /\ r.vals.urgency_level = URGENT))

\* C3: right after create_recommendations_node the pending node is
\* escalation_advice_node when urgency_level is exactly "urgent" and
\* generate_medical_report otherwise (a missing urgency_level included); after
\* any other node, and after a start, the pending node is the single successor.
C3_BranchRule ==
    LET h == hist["caller"]
        vals == cp["direct"].vals
        next == cp["direct"].next
        last == h[Len(h)]
    IN
    h # <<>> =>
        /\ last = "create_recommendations_node" =>
              next = IF "urgency_level" \in DOMAIN vals /\ vals.urgency_level = URGENT
                     THEN "escalation_advice_node"
                     ELSE "generate_medical_report"
        /\ last = START => next = "collect_patient_info"
        /\ last = "collect_patient_info" => next = "analyze_symptoms_node"
        /\ last = "analyze_symptoms_node" => next = "collect_medical_history"
        /\ last = INTERRUPT => next = "collect_medical_history"
        /\ last = "collect_medical_history" => next = "create_recommendations_node"
        /\ last = "escalation_advice_node" => next = "generate_medical_report"
        /\ last = "generate_medical_report" => next = END

C3_UrgentBranchTaken ==
    /\ hist["caller"] # <<>>
    /\ hist["caller"][Len(hist["caller"])] = "create_recommendations_node"
    /\ Get(cp["direct"].vals, "urgency_level", LOW) = URGENT
    /\ cp["direct"].next = "escalation_advice_node"

\* C4: in the console program, once the first stream has ended the thread has a
\* checkpoint whose pending node is collect_medical_history; once the stream
\* resumed with "no allergies" has ended, nothing is pending, final_report is set
\* and medical_history is "no allergies".
C4_RoundTrip ==
    LET r == run["console"]
        c == cp["1"]
    IN
    /\ (con.pc = "stream" /\ ~r.active /\ ~r.error) =>
          (c.exists /\ c.next = "collect_medical_history")
    /\ (con.pc = "resumed" /\ ~r.active /\ ~r.error /\ con.user_input = NoAllergies) =>
          /\ c.next = END
          /\ Truthy(Get(c.vals, "final_report", <<>>))
          /\ Get(c.vals, "medical_history", <<>>) = NoAllergies

C4_ResumedToCompletion ==
    /\ con.pc = "resumed" /\ ~run["console"].active /\ ~run["console"].error
    /\ con.user_input = NoAllergies
    /\ cp["1"].next = END
    /\ cp["1"].vals.medical_history = NoAllergies

LaterFields == {"recommendations", "escalation_advice", "final_report", "report_filepath"}

LaterNodes ==
    {"create_recommendations_node", "escalation_advice_node", "generate_medical_report"}

\* C5: from the suspension of a Streamlit run to the next resume or start, the
\* thread is suspended with collect_medical_history pending, the stream has
\* returned, no later node has completed since the stream was started, the
\* fields those nodes write are as they were when the stream was called and so
\* are the report files.
C5_NothingPastSuspension ==
    LET c == cp["streamlit_session"]
        r == run["ui1"]
        h == hist["ui1"]
    IN
    (h # <<>> /\ h[Len(h)] = INTERRUPT) =>
        /\ Suspended("streamlit_session")
        /\ ~r.active
        /\ c.next = "collect_medical_history"
        /\ \A n \in LaterNodes : Count(Since(hist["ui1"], START), n) = 0
        /\ \A k \in LaterFields :
              /\ k \in DOMAIN c.vals <=> k \in DOMAIN r.base
              /\ k \in DOMAIN c.vals => c.vals[k] = r.base[k]
        /\ files = r.files

C5_SuspendedAgain ==
    /\ Suspended("streamlit_session")
    /\ Count(hist["ui1"], INTERRUPT) = 2
    /\ ui["ui1"].page = "prompt"

\* C6 as stated: collect_medical_history never completes on first entry, each of
\* its completions is the resume of a suspension.
C6_AlwaysSuspends ==
    LET h == hist["caller"] IN
    \A i \in 1..Len(h) :
        h[i] = "collect_medical_history" =>
            (i > 2 /\ h[i - 1] = RESUME /\ h[i - 2] = INTERRUPT)

\* C6: entered without a resume value, collect_medical_history suspends when
\* symptom_analysis is non-empty: the state is left as it was and the payload is
\* built from that symptom_analysis; it completes without suspending only when
\* symptom_analysis is empty or missing, and then writes messages alone.
C6_SuspendsWithAnalysis ==
    LET h == hist["caller"]
        n == Len(h)
        c == cp["direct"]
        analysis == Get(c.vals, "symptom_analysis", EmptyDict)
    IN
    /\ (n > 1 /\ h[n] = "collect_medical_history" /\ h[n - 1] # RESUME) =>
          /\ analysis = EmptyDict
          /\ DOMAIN final_state["caller"] = {"messages"}
    /\ (n > 0 /\ h[n] = INTERRUPT) =>
          /\ analysis # EmptyDict
          /\ c.next = "collect_medical_history"
          /\ c.vals = run["caller"].vals
          /\ c.interrupt = <<InterruptMessage(analysis)>>
          /\ final_state["caller"] = [k \in {INTERRUPT} |-> InterruptMessage(analysis)]
          /\ ~run["caller"].active

C6_CompletedWithoutSuspending ==
    LET h == hist["caller"] IN
    /\ Len(h) > 1
    /\ h[Len(h)] = "collect_medical_history"
    /\ h[Len(h) - 1] = "analyze_symptoms_node"
    /\ "symptom_analysis" \notin DOMAIN cp["direct"].vals

KeptFields == {"symptoms", "symptom_analysis", "urgency_level"}

\* C7: after the resume of a suspended Streamlit thread the nodes complete in the
\* order collect_medical_history, create_recommendations_node, ...: neither
\* collect_patient_info nor analyze_symptoms_node runs, and symptoms,
\* symptom_analysis and urgency_level stay as in the checkpoint resumed from.
C7_ResumeContinues ==
    LET h == hist["ui1"]
        k == LastIndex(h, RESUME)
        pass == SubSeq(h, k + 1, Len(h))
        c == cp["streamlit_session"]
        r == run["ui1"]
    IN
    (k > 1 /\ h[k - 1] = INTERRUPT /\ LastIndex(h, START) < k /\ LastIndex(h, SUBMIT) < k) =>
        /\ \/ IsPrefix(pass, <<"collect_medical_history", "create_recommendations_node",
                               "escalation_advice_node", "generate_medical_report">>)
           \/ IsPrefix(pass, <<"collect_medical_history", "create_recommendations_node",
                               "generate_medical_report">>)
        /\ \A f \in KeptFields : f \in DOMAIN r.base /\ f \in DOMAIN c.vals
                                 /\ c.vals[f] = r.base[f]
        /\ (pass = <<>> /\ r.active) =>
              (r.next = "collect_medical_history" /\ r.resume # <<>>)

C7_ResumePassRan ==
    LET h == hist["ui1"] IN
    /\ Len(h) > 3
    /\ SubSeq(h, Len(h) - 3, Len(h)) =
          <<INTERRUPT, RESUME, "collect_medical_history", "create_recommendations_node">>

\* C8: between one submission of symptoms in the Streamlit program and the next,
\* each node other than collect_medical_history completes at most once.
C8_AtMostOncePerInstance ==
    LET w == Since(hist["ui1"], SUBMIT) IN
    \A n \in Nodes \ {"collect_medical_history"} : Count(w, n) <= 1

\* the medical history the claim gives for the resume value v
NormalizedHistory(v) ==
    IF Lower(Strip(v)) \in {<<"n", "o">>, <<"n", "o", "n", "e">>, <<"n", "/", "a">>, <<>>}
    THEN NoAdditionalHistory
    ELSE Strip(v)

\* C9: once collect_medical_history has completed in the console program,
\* medical_history is the fixed sentinel when the answer, trimmed and
\* lower-cased, is "no", "none", "n/a" or "", and the trimmed answer otherwise.
C9_Normalization ==
    Count(hist["console"], "collect_medical_history") > 0 =>
        /\ cp["1"].vals.medical_history = NormalizedHistory(con.user_input)
        /\ con.user_input \in {<<"n", "o">>, <<"N", "O">>, <<" ", "n", "o", "n", "e", " ">>,
                               <<>>, <<"n", "/", "a">>}
              => cp["1"].vals.medical_history = NoAdditionalHistory

C9_UpperCaseDeclined ==
    /\ Count(hist["console"], "collect_medical_history") > 0
    /\ con.user_input = <<"N", "O">>
    /\ cp["1"].vals.medical_history = NoAdditionalHistory

\* C10: once final_report is set on the Streamlit thread, no step changes any
\* value of that thread's state.
C10_TerminalImmutability ==
    [][Truthy(Get(cp["streamlit_session"].vals, "final_report", <<>>))
          => cp'["streamlit_session"].vals = cp["streamlit_session"].vals]_vars

\* C11: whenever nothing is pending on the caller's thread, the last node to
\* have completed there is generate_medical_report, its update carries
\* final_report and report_filepath and the file holds the report; on the urgent
\* path it follows escalation_advice_node; once it has completed the run is over.
C11_ReportIsTerminal ==
    LET h == hist["caller"]
        c == cp["direct"]
        done == SelectSeq(h, LAMBDA e : e \in Nodes)
        n == Len(done)
    IN
    /\ (c.exists /\ c.next = END) =>
          /\ n > 1 /\ done[n] = "generate_medical_report"
          /\ done[n - 1] \in {"create_recommendations_node", "escalation_advice_node"}
          /\ (Get(c.vals, "urgency_level", LOW) = URGENT) =>
                done[n - 1] = "escalation_advice_node"
          /\ {"final_report", "report_filepath"} \subseteq DOMAIN final_state["caller"]
          /\ c.vals.final_report = final_state["caller"].final_report
          /\ c.vals.report_filepath \in DOMAIN files
          /\ files[c.vals.report_filepath] = c.vals.final_report
    /\ (h # <<>> /\ h[Len(h)] = "generate_medical_report") =>
          (c.next = END /\ ~run["caller"].active)

C11_UrgentPathEnded ==
    LET h == hist["caller"] IN
    /\ cp["direct"].exists /\ cp["direct"].next = END
    /\ Len(h) > 1
    /\ h[Len(h)] = "generate_medical_report"
    /\ h[Len(h) - 1] = "escalation_advice_node"

C13_NoSymptomsRejected ==
    LET h == hist["caller"]
        humans == SelectSeq(cp["direct"].vals.messages, LAMBDA m : m.role = "human")
    IN
    (Count(h, START) = 1 /\ (humans = <<>> \/ humans[1].content = <<>>)) =>
        /\ \A n \in Nodes : Count(h, n) = 0
        /\ files = <<>>

\* C14: once analyze_symptoms_node has been reached in a run whose symptoms are
\* empty, the run has stopped there with an error: the node has not completed
\* and no later node has.
C14_EmptySymptomsFailFast ==
    LET r == run["caller"]
        w == Since(hist["caller"], START)
    IN
    (w # hist["caller"] /\ ~Truthy(Get(r.vals, "symptoms", <<>>))) =>
        /\ \A n \in Nodes \ {"collect_patient_info"} : Count(w, n) = 0
        /\ (Count(w, "collect_patient_info") = 1 /\ ~r.active) => r.error

ProviderNodes ==
    {"analyze_symptoms_node", "create_recommendations_node", "escalation_advice_node"}

\* C15: after a provider call has failed in a node of the caller's run, the run
\* has ended, the thread's state is as before the node and no file was written
\* by the run; and no resume ever continues at a node that calls a provider.
C15_ProviderFailureHalts ==
    LET r == run["caller"]
        h == hist["caller"]
    IN
    /\ (r.error /\ r.next \in ProviderNodes) =>
          /\ ~r.active
          /\ cp["direct"].vals = r.vals
          /\ Count(Since(h, START), "generate_medical_report") = 0
    /\ \A i \in 1..(Len(h) - 1) : h[i] = RESUME => h[i + 1] \notin ProviderNodes

\* C16: a resume of the caller's thread when nothing is pending there ends with
\* an error and leaves the thread's checkpoint as it was.
C16_ResumeWithoutSuspensionFails ==
    [][(CallerResume /\ ~HasNext("direct")) => (run'["caller"].error /\ cp' = cp)]_vars

\* C17: when two callers resume on one thread id that has been started once
\* and suspended once, collect_medical_history, create_recommendations_node and
\* generate_medical_report each complete at most once, whatever the interleaving
\* of the two resumes.
C17_ResumedAtMostOnce ==
    LET hA == hist["callerA"]
        hA2 == hist["callerA2"]
    IN
    (Count(hA, START) = 1 /\ Count(hA, INTERRUPT) + Count(hA2, INTERRUPT) = 1) =>
        \A n \in {"collect_medical_history", "create_recommendations_node",
                  "generate_medical_report"} :
            Count(hA, n) + Count(hA2, n) <= 1

\* C18: of two callers with distinct thread ids, each one whose run has ended
\* has its report persisted as if it had run alone: the file named by its
\* report_filepath exists and holds its final_report, whatever the other caller
\* has done.
C18_InstancesIndependent ==
    \A c \in {"callerA", "callerB"} :
        LET v == cp[Thread(c)] IN
        (v.exists /\ v.next = END /\ "report_filepath" \in DOMAIN v.vals) =>
            /\ v.vals.report_filepath \in DOMAIN files
            /\ files[v.vals.report_filepath] = v.vals.final_report

\* C19: while callerA's thread is suspended, every step in which callerA issues
\* no start and no resume leaves the checkpoint of that thread (state, pending
\* step, interrupt) as it is, whatever callerB does on its own thread id.
C19_SuspendedCheckpointKept ==
    [][(Suspended("A") /\ hist'["callerA"] = hist["callerA"]) =>
          (cp'["A"] = cp["A"] /\ cp'["A"].next = "collect_medical_history")]_vars

\* callerA is suspended, and callerB has been suspended, resumed and has ended
\* its run with a report
C19_SuspendedWhileOtherEnded ==
    LET hA == hist["callerA"]
        hB == hist["callerB"]
    IN
    /\ Suspended("A") /\ hA # <<>> /\ hA[Len(hA)] = INTERRUPT
    /\ cp["A"].next = "collect_medical_history"
    /\ hB # <<>> /\ hB[Len(hB)] = "generate_medical_report"
    /\ Count(hB, RESUME) = 1

\* the file name the report gets for `symptoms` at time `now` when the
\* characters of `keep`, whitespace and hyphens are what the cleaning keeps:
\* first 30 characters, then the cleaning, then one underscore per run
RECURSIVE Underscored(_)
Underscored(s) ==
    IF s = <<>> THEN <<>>
    ELSE IF Head(s) \notin Whitespace \cup {"-"} THEN <<Head(s)>> \o Underscored(Tail(s))
    ELSE IF Len(s) > 1 /\ s[2] \in Whitespace \cup {"-"} THEN Underscored(Tail(s))
    ELSE <<"_">> \o Underscored(Tail(s))

First30(s) == [i \in 1..(IF Len(s) < 30 THEN Len(s) ELSE 30) |-> s[i]]

ExpectedFilepath(symptoms, now, keep) ==
    <<"medical_reports/", "medical_analysis_">> \o strftime(now, "%Y%m%d_%H%M%S") \o <<"_">>
    \o Underscored(SelectSeq(First30(symptoms),
                             LAMBDA ch : ch \in keep \cup Whitespace \cup {"-"}))
    \o <<".md">>

\* [A-Za-z0-9_]
AsciiWordChars == WordChars \ {"é"}

ReportWritten == cp["direct"].next = END /\ "report_filepath" \in DOMAIN cp["direct"].vals

\* C20 (as stated): the report's file name is built from the first 30
\* characters of symptoms by removing every character outside [A-Za-z0-9_],
\* whitespace and hyphen, then replacing each run of whitespace and hyphens by
\* one underscore.
C20_FilenameAscii ==
    ReportWritten =>
        cp["direct"].vals.report_filepath =
            ExpectedFilepath(cp["direct"].vals.symptoms, clock, AsciiWordChars)

\* C20 (amended): the same, where the characters kept are the word characters
\* of any script (letters, digits, underscore, accented letters included),
\* whitespace and hyphen; the report is written to the file of that name.
C20_FilenameUnicodeWord ==
    ReportWritten =>
        /\ cp["direct"].vals.report_filepath =
              ExpectedFilepath(cp["direct"].vals.symptoms, clock, WordChars)
        /\ cp["direct"].vals.report_filepath \in DOMAIN files

\* a report was written for a symptoms text longer than 30 characters that has
\* an accented letter and a punctuation mark among its first 30
C20_LongAccentedSymptoms ==
    LET symptoms == cp["direct"].vals.symptoms IN
    /\ ReportWritten
    /\ Len(symptoms) > 30
    /\ \E i, j \in 1..30 : symptoms[i] = "é" /\ symptoms[j] = "!"

\* the part of a report's file path between the timestamp's underscore and ".md"
SymptomPortion(path) == SubSeq(path, 6, Len(path) - 1)

\* C21 (as stated): for symptoms "Severe chest pain!! & can't breathe" the
\* symptom portion of the report's file name is "Severe_chest_pain_cant_breathe".
C21_PortionWholeText ==
    (ReportWritten /\ cp["direct"].vals.symptoms = SevereChestPain) =>
        SymptomPortion(cp["direct"].vals.report_filepath) =
            <<"S", "e", "v", "e", "r", "e", "_", "c", "h", "e", "s", "t", "_", "p", "a", "i",
      "n", "_", "c", "a", "n", "t", "_", "b", "r", "e", "a", "t", "h", "e">>

\* C21 (amended): for that symptoms text the symptom portion is
\* "Severe_chest_pain_cant_br": only the first 30 characters, which end
\* in "can't br", are cleaned and joined.
C21_PortionFirstThirty ==
    (ReportWritten /\ cp["direct"].vals.symptoms = SevereChestPain) =>
        SymptomPortion(cp["direct"].vals.report_filepath) =
            <<"S", "e", "v", "e", "r", "e", "_", "c", "h", "e", "s", "t", "_", "p", "a", "i",
      "n", "_", "c", "a", "n", "t", "_", "b", "r">>

\* the report for "Severe chest pain!! & can't breathe" has been written
C21_SevereChestPainReported ==
    /\ ReportWritten
    /\ cp["direct"].vals.symptoms = SevereChestPain
    /\ cp["direct"].vals.report_filepath \in DOMAIN files

\* C22: in every step (a start, a resume, a node completing or failing) the
\* messages saved for the caller's thread before the step are a prefix of the
\* messages saved after it, and the same holds for the messages of the run.
C22_MessagesAppendOnly ==
    [][/\ IsPrefix(cp["direct"].vals.messages, cp'["direct"].vals.messages)
       /\ (run["caller"].active /\ run'["caller"].active /\ hist'["caller"] # hist["caller"]
            /\ hist'["caller"][Len(hist'["caller"])] \in Nodes) =>
              IsPrefix(run["caller"].vals.messages, run'["caller"].vals.messages)]_vars

\* a second run on the thread has completed a node: the thread holds the
\* messages of the first run followed by those of the second
C22_SecondRunAppended ==
    /\ Count(hist["caller"], START) = 2
    /\ Count(hist["caller"], RESUME) > 0
    /\ hist["caller"][Len(hist["caller"])] = "collect_patient_info"
    /\ Len(cp["direct"].vals.messages) > 6

\* C23: whenever a step changes the medical_research saved for the caller's
\* thread, the value saved before is a prefix of the new value.
C23_ResearchAccumulates ==
    [][("medical_research" \in DOMAIN cp["direct"].vals
        /\ cp'["direct"].vals.medical_research # cp["direct"].vals.medical_research) =>
          IsPrefix(cp["direct"].vals.medical_research,
                   cp'["direct"].vals.medical_research)]_vars

\* the fields of MedicalState other than messages and medical_research
SingleFields ==
    {"symptoms", "medical_history", "symptom_analysis", "urgency_level", "recommendations",
     "escalation_advice", "final_report", "report_filepath"}

\* the updates node n can return in `state`, over what the providers and the
\* user can answer
UpdatesOf(n, state) ==
    CASE n = "collect_patient_info" -> {collect_patient_info(state)}
      [] n = "analyze_symptoms_node" ->
            {analyze_symptoms_node(state, r) : r \in AnalysisResults}
      [] n = "collect_medical_history" ->
            {collect_medical_history(state, <<v>>).update : v \in ResumeValues}
      [] n = "create_recommendations_node" ->
            {create_recommendations_node(state, r) : r \in RecommendationResults}
      [] n = "escalation_advice_node" ->
            {escalation_advice_node(state, r) : r \in EscalationResults}
      [] n = "generate_medical_report" -> {generate_medical_report(state, clock)}

\* the fields among SingleFields that node n can write in `state`
Written(n, state) == UNION {DOMAIN u \cap SingleFields : u \in UpdatesOf(n, state)}

\* C24 (as stated): in every state of the thread, no two distinct nodes return
\* updates that include the same field other than messages and medical_research.
C24_OneWriterPerField ==
    \A n, m \in Nodes :
        n # m => Written(n, cp["direct"].vals) \cap Written(m, cp["direct"].vals) = {}

WritesOf(n) ==
    CASE n = "collect_patient_info" -> {"symptoms", "medical_history"}
      [] n = "analyze_symptoms_node" -> {"symptom_analysis", "urgency_level"}
      [] n = "collect_medical_history" -> {"medical_history"}
      [] n = "create_recommendations_node" -> {"recommendations"}
      [] n = "escalation_advice_node" -> {"escalation_advice"}
      [] n = "generate_medical_report" -> {"final_report", "report_filepath"}

\* C24 (amended): every node returns, of those fields, only its own:
\* collect_patient_info symptoms and medical_history, analyze_symptoms_node
\* symptom_analysis and urgency_level, collect_medical_history medical_history,
\* create_recommendations_node recommendations, escalation_advice_node
\* escalation_advice, generate_medical_report final_report and report_filepath;
\* so medical_history has two writers and every other field one. The update
\* of the node that completed last is within that node's fields.
C24_WritersOfFields ==
    LET h == hist["caller"] IN
    /\ \A n \in Nodes : Written(n, cp["direct"].vals) \subseteq WritesOf(n)
    /\ (h # <<>> /\ h[Len(h)] \in Nodes) =>
          DOMAIN final_state["caller"] \cap SingleFields \subseteq WritesOf(h[Len(h)])

\* collect_medical_history has just written medical_history in a run in which
\* collect_patient_info wrote it before, and every node has written its fields
C24_HistoryWrittenTwice ==
    LET h == hist["caller"] IN
    /\ h # <<>> /\ h[Len(h)] = "collect_medical_history"
    /\ "medical_history" \in DOMAIN final_state["caller"]
    /\ "medical_history" \in DOMAIN collect_patient_info(cp["direct"].vals)
    /\ Count(h, "escalation_advice_node") > 0
    /\ "escalation_advice" \in DOMAIN cp["direct"].vals

\* C25: once the caller's thread holds symptoms, every step leaves it with the
\* same symptoms value.
C25_SymptomsImmutable ==
    [][("symptoms" \in DOMAIN cp["direct"].vals) =>
          /\ "symptoms" \in DOMAIN cp'["direct"].vals
          /\ cp'["direct"].vals.symptoms = cp["direct"].vals.symptoms]_vars

\* urgency_level and symptom_analysis.urgency_level of a state agree: absent
\* together, or present, equal and one of low, moderate, urgent
UrgencyAgrees(state) ==
    IF "symptom_analysis" \in DOMAIN state
    THEN /\ "urgency_level" \in DOMAIN state
         /\ state.urgency_level = state.symptom_analysis.urgency_level
         /\ state.urgency_level \in Urgencies
    ELSE "urgency_level" \notin DOMAIN state

\* C26: in every state, the saved state of the caller's thread and the state of
\* its run have urgency_level equal to symptom_analysis.urgency_level, both
\* absent or both present with one of the three values.
C26_UrgencyCopyAgrees ==
    /\ UrgencyAgrees(cp["direct"].vals)
    /\ UrgencyAgrees(run["caller"].vals)

\* a second analysis on the thread has replaced an urgent classification by
\* another one
C26_UrgencyReclassified ==
    /\ Count(hist["caller"], "analyze_symptoms_node") = 2
    /\ "escalation_advice" \in DOMAIN cp["direct"].vals
    /\ "urgency_level" \in DOMAIN cp["direct"].vals
    /\ cp["direct"].vals.urgency_level = MODERATE

\* the node executions of a client so far: the nodes that completed, those that
\* suspended and the one that raised
Entries(c) ==
    Cardinality({i \in 1..Len(hist[c]) : hist[c][i] \in Nodes \cup {INTERRUPT}})
    + (IF run[c].error THEN 1 ELSE 0)

\* C27: the console program's workflow instance executes at most seven nodes,
\* which is below the step limit of 50; a stream that was neither cancelled nor
\* failed has stopped at END or at the suspension in collect_medical_history;
\* and every stream that runs eventually stops.
C27_BoundedSteps ==
    /\ [](/\ Entries("console") <= 7
          /\ Entries("console") < recursion_limit
          /\ (/\ hist["console"] # <<>>
              /\ ~run["console"].active /\ ~run["console"].error /\ ~con.cancelled) =>
                \/ cp["1"].next = END
                \/ cp["1"].next = "collect_medical_history" /\ Suspended("1"))
    /\ (run["console"].active ~> ~run["console"].active)

\* an urgent run went from START through the suspension and the resume to END
\* with seven node executions
C27_SevenEntries ==
    /\ Entries("console") = 7
    /\ cp["1"].next = END
    /\ Count(hist["console"], INTERRUPT) = 1
    /\ Count(hist["console"], "escalation_advice_node") = 1

\* part occurs in text as a run of consecutive pieces
HasSubSeq(text, part) ==
    \E i \in 0..(Len(text) - Len(part)) : SubSeq(text, i + 1, i + Len(part)) = part

\* the first position of piece in text
Position(text, piece) == CHOOSE i \in 1..Len(text) : text[i] = piece /\ \A j \in 1..(i - 1) : text[j] # piece

\* C28: a report just written has the urgent escalation section exactly when
\* the urgency is urgent, with the section before the disclaimer; and for
\* urgency low, the history prompt having been answered " none ", it shows
\* urgency LOW and the sentinel "No additional medical history provided" and
\* has no escalation section.
C28_EscalationSectionIffUrgent ==
    LET h == hist["reuser"]
        vals == cp["R"].vals
        report == vals.final_report
        urgency == Get(vals, "urgency_level", <<>>)
    IN
    (h # <<>> /\ h[Len(h)] = "generate_medical_report") =>
        /\ Contains(report, EscalationHeading) <=> urgency = URGENT
        /\ Contains(report, EscalationHeading) =>
              Position(report, EscalationHeading) < Position(report, Disclaimer[1])
        /\ urgency = LOW =>
              /\ HasSubSeq(report, <<"\n**Urgency Level:** ", "L", "O", "W", "\n">>)
              /\ HasSubSeq(report, <<"**Medical History:** ">> \o NoAdditionalHistory \o <<"\n\n">>)
              /\ ~Contains(report, EscalationHeading)

\* C29: a step in which generate_medical_report raises ends the caller's
\* stream with the error and changes nothing else: the thread's checkpoint
\* (every field, final_report and report_filepath included, and the pending
\* node), the files and the events are as before, final_report and
\* report_filepath are absent when no report step completed before, and the
\* failed stream executes nothing further.
C29_FailedReportChangesNothing ==
    [][(/\ run["caller"].active /\ run["caller"].next = "generate_medical_report"
        /\ run'["caller"].error) =>
          /\ ~run'["caller"].active
          /\ cp' = cp /\ files' = files /\ hist' = hist /\ final_state' = final_state
          /\ run'["caller"].vals = run["caller"].vals
          /\ Count(hist["caller"], "generate_medical_report") = 0 =>
                {"final_report", "report_filepath"} \cap DOMAIN cp'["direct"].vals = {}]_vars

\* the report step of the first run on the thread has raised: the stream has
\* ended with the error, with no report in the state and no file
C29_ReportStepRaised ==
    /\ run["caller"].error /\ ~run["caller"].active
    /\ run["caller"].next = "generate_medical_report"
    /\ cp["direct"].next = "generate_medical_report"
    /\ "recommendations" \in DOMAIN cp["direct"].vals
    /\ "final_report" \notin DOMAIN cp["direct"].vals
    /\ files = <<>>

\* C30: when the console program has exited, its exit status is 1 exactly when
\* a stream of the workflow ended with an error, and 0 otherwise; an exit after
\* a keyboard interrupt has status 0 and is never an exit after an error; and
\* while the program runs, a stream that failed is neither displayed as
\* complete nor marked as cancelled.
C30_ErrorAndCancelDistinct ==
    /\ con.pc = "exited" =>
          /\ con.exit \in {0, 1}
          /\ con.exit = 1 <=> run["console"].error
          /\ con.cancelled => (con.exit = 0 /\ ~run["console"].error)
    /\ run["console"].error => (~con.cancelled /\ ~con.complete)

\* the program has exited with status 1 after the resumed stream failed
C30_ExitedOnError ==
    /\ con.pc = "exited" /\ con.exit = 1
    /\ run["console"].error
    /\ Count(hist["console"], RESUME) = 1

\* C31: neither driver shows a run as complete while its thread has a pending
\* step: in Streamlit analysis_complete is true, and in the console program
\* "Medical Analysis Complete" is shown, only when the thread's pending step is
\* END; when the first stream has ended at the suspension the driver is at the
\* history prompt or resuming, not at the result.
C31_CompleteOnlyWithoutPending ==
    /\ ss["ui1"].analysis_complete => cp["streamlit_session"].next = END
    /\ ui["ui1"].page \in {"results", "complete"} => cp["streamlit_session"].next = END
    /\ con.complete => cp["1"].next = END
    /\ (con.pc = "exited" /\ con.exit = 0 /\ ~con.cancelled /\ cp["1"].exists) =>
          cp["1"].next = END

\* the Streamlit session shows the history prompt for a suspended thread and
\* has not marked the analysis complete
C31_PromptWhileSuspended ==
    /\ ui["ui1"].pc = "idle" /\ ui["ui1"].page = "prompt"
    /\ Suspended("streamlit_session")
    /\ cp["streamlit_session"].next = "collect_medical_history"
    /\ ~ss["ui1"].analysis_complete

\* the step in which the Streamlit script reads a click on "Continue Analysis"
\* after its stream has ended at a pending step
ContinueRead ==
    /\ ui["ui1"].pc = "stream" /\ ui["ui1"].submitted # <<>>
    /\ ~run["ui1"].active /\ ~run["ui1"].error
    /\ cp["streamlit_session"].next # END
    /\ ui'["ui1"] # ui["ui1"]

\* the step in which the console program has read the answer to its history
\* prompt
AnswerRead == con.pc = "stream" /\ con'.pc = "resumed"

\* C32 (as stated): whatever text is submitted at the history prompt, the empty
\* text included, the driver resumes the thread with it (surrounding whitespace
\* aside) and collect_medical_history is the node that runs.
C32_AnyTextResumes ==
    [][/\ ContinueRead =>
            /\ run'["ui1"].active /\ run'["ui1"].next = "collect_medical_history"
            /\ run'["ui1"].resume = <<Strip(ui["ui1"].submitted[1])>>
       /\ AnswerRead =>
            /\ run'["console"].active /\ run'["console"].next = "collect_medical_history"
            /\ Strip(run'["console"].resume[1]) = Strip(con'.user_input)]_vars

\* C32 (amended): the console program resumes the thread with whatever text is
\* entered, the empty text included, unchanged; the Streamlit program strips
\* the text and resumes with it when it is not blank, and on a blank text
\* resumes nothing: the thread stays suspended and the prompt is shown again.
\* A stream resumed with a value completes collect_medical_history.
C32_TextResumesUnlessBlankInStreamlit ==
    [][/\ ContinueRead =>
            IF Strip(ui["ui1"].submitted[1]) # <<>>
            THEN /\ run'["ui1"].active /\ run'["ui1"].next = "collect_medical_history"
                 /\ run'["ui1"].resume = <<Strip(ui["ui1"].submitted[1])>>
                 /\ ui'["ui1"].pc = "resumed"
            ELSE /\ run' = run /\ cp' = cp /\ hist' = hist
                 /\ Suspended("streamlit_session")
                 /\ ui'["ui1"].pc = "idle" /\ ui'["ui1"].page = "prompt"
                 /\ ~ss'["ui1"].analysis_complete
       /\ AnswerRead =>
            /\ run'["console"].active /\ run'["console"].next = "collect_medical_history"
            /\ run'["console"].resume = <<con'.user_input>>
       /\ \A c \in {"ui1", "console"} :
            (run[c].active /\ run[c].resume # <<>> /\ run[c].next = "collect_medical_history") =>
                collect_medical_history(run[c].vals, run[c].resume).kind = "update"]_vars

\* the console program was given the empty text at the history prompt and
\* collect_medical_history has completed with it
C32_EmptyAnswerDelivered ==
    /\ con.pc = "resumed" /\ con.user_input = <<>>
    /\ hist["console"][Len(hist["console"])] = "collect_medical_history"
    /\ cp["1"].vals.medical_history = NoAdditionalHistory
    /\ ~Suspended("1")

\* the fields a completed analysis leaves in the thread's state
PreviousRunFields ==
    {"escalation_advice", "recommendations", "symptom_analysis", "medical_research", "final_report"}

\* C33: when the first node of an analysis started on the Streamlit thread
\* after a completed one is about to run, the state it is given holds none of
\* the fields written by the completed analysis.
C33_NewAnalysisStartsFresh ==
    LET h == hist["ui1"]
        r == run["ui1"]
    IN
    (/\ r.active /\ r.next = "collect_patient_info"
     /\ Count(h, "generate_medical_report") > 0
     /\ h[Len(h)] = START) =>
        \A f \in PreviousRunFields : f \notin DOMAIN r.vals

\* C34: whenever final_report is set on the caller's thread, symptom_analysis
\* and recommendations are both present in the thread's state.
C34_ReportImpliesAnalysisAndRecommendations ==
    LET vals == cp["direct"].vals IN
    Truthy(Get(vals, "final_report", <<>>)) =>
        /\ "symptom_analysis" \in DOMAIN vals
        /\ "recommendations" \in DOMAIN vals

\* C35: while analysis_complete is true and the final state is kept in the
\* Streamlit session, no step executes a node, starts or resumes a stream,
\* changes the thread's checkpoint or writes a file; and a script run in that
\* situation ends with the stored result on the page, the stored result being
\* as before.
C35_RerunsAfterCompletionOnlyRender ==
    [][(ss["ui1"].analysis_complete /\ Truthy(ss["ui1"].final_state)) =>
          /\ cp' = cp /\ run' = run /\ hist' = hist /\ files' = files
          /\ final_state' = final_state
          /\ ui["ui1"].pc = "rerun" =>
                /\ ui'["ui1"].pc = "idle"
                /\ ui'["ui1"].page \in {"results", "complete"}
                /\ ss'["ui1"].analysis_complete
                /\ ss'["ui1"].final_state = ss["ui1"].final_state]_vars

\* a script run has been triggered after the analysis completed and its result
\* was stored
C35_RerunAfterCompletion ==
    /\ ui["ui1"].pc = "rerun" /\ ui["ui1"].page = "results"
    /\ ss["ui1"].analysis_complete
    /\ Truthy(Get(ss["ui1"].final_state, "final_report", <<>>))
    /\ cp["streamlit_session"].next = END

\* C36: in both drivers collect_patient_info is only ever about to run with
\* symptoms that are not blank, and a checkpoint only exists with such symptoms;
\* the console program that ended at its symptoms prompt without a
\* cancellation has executed no node, created no checkpoint and written no
\* file; a Streamlit session without a started workflow has streamed nothing.
C36_BlankSymptomsStartNothing ==
    /\ \A c \in {"console", "ui1"} :
          /\ (run[c].active /\ run[c].next = "collect_patient_info") =>
                Strip(Get(run[c].vals, "symptoms", <<>>)) # <<>>
          /\ cp[Thread(c)].exists => Strip(Get(cp[Thread(c)].vals, "symptoms", <<>>)) # <<>>
    /\ (con.pc = "exited" /\ con.symptoms = <<>> /\ ~con.cancelled) =>
          /\ hist["console"] = <<>>
          /\ ~cp["1"].exists
          /\ files = <<>>
    /\ hist["ui1"] # <<>> => Strip(ss["ui1"].symptoms) # <<>> \/ ~ss["ui1"].workflow_started

\* the console program was given blank symptoms and has ended
C36_ConsoleRefusedBlank ==
    /\ con.pc = "exited" /\ con.exit = 0 /\ con.symptoms = <<>> /\ ~con.cancelled
    /\ hist["console"] = <<>>
    /\ ~cp["1"].exists

\* C37: the symptom portion of a written report's file path is at most 30
\* characters long and has no whitespace, hyphen, dot, slash or backslash; the
\* path is the directory "medical_reports/" followed by one file name.
C37_PortionStaysInDirectory ==
    LET path == cp["direct"].vals.report_filepath
        portion == SymptomPortion(path)
    IN
    ReportWritten =>
        /\ Len(portion) <= 30
        /\ \A i \in 1..Len(portion) :
              portion[i] \notin Whitespace \cup {"-", ".", "/", "\\"}
        /\ path[1] = "medical_reports/"
        /\ SubSeq(path, 2, 5) = <<"medical_analysis_">> \o strftime(clock, "%Y%m%d_%H%M%S") \o <<"_">>
        /\ path[Len(path)] = ".md"
        /\ path \in DOMAIN files

\* the report for "../../etc/passwd" has been written
C37_PathTraversalReported ==
    /\ ReportWritten
    /\ cp["direct"].vals.symptoms = PathTraversal
    /\ SymptomPortion(cp["direct"].vals.report_filepath) = <<"e", "t", "c", "p", "a", "s", "s", "w", "d">>
    /\ cp["direct"].vals.report_filepath \in DOMAIN files

\* the text ends with the disclaimer footer, which occurs in it once
EndsWithDisclaimer(text) ==
    /\ Len(text) >= Len(Disclaimer)
    /\ SubSeq(text, Len(text) - Len(Disclaimer) + 1, Len(text)) = Disclaimer
    /\ Count(text, Disclaimer[2]) = 1

\* C38: every report file written, and the final_report of the caller's
\* thread whenever it is set, ends with the disclaimer footer: on the urgent
\* path, on the non-urgent path and when the analysis or the recommendations
\* are missing from the state.
C38_ReportEndsWithDisclaimer ==
    /\ \A path \in DOMAIN files : EndsWithDisclaimer(files[path])
    /\ Truthy(Get(cp["direct"].vals, "final_report", <<>>)) =>
          EndsWithDisclaimer(cp["direct"].vals.final_report)

\* a report with the urgent escalation section has been written
C38_UrgentReportWritten ==
    /\ cp["direct"].next = END
    /\ Truthy(Get(cp["direct"].vals, "final_report", <<>>))
    /\ Contains(cp["direct"].vals.final_report, EscalationHeading)
    /\ cp["direct"].vals.report_filepath \in DOMAIN files
    /\ files[cp["direct"].vals.report_filepath] = cp["direct"].vals.final_report

\* C39: on the caller's thread the conversation holds one AI message per node
\* completion and, besides them, only the human messages of the inputs, at
\* most one per start: its length is the number of initial messages plus the
\* number of node completions, at END and at any other time; and every node
\* completion reports an update with exactly one message.
C39_OneMessagePerCompletion ==
    LET h == hist["caller"]
        messages == cp["direct"].vals.messages
        ai == SelectSeq(messages, LAMBDA m : m.role = "ai")
        human == SelectSeq(messages, LAMBDA m : m.role = "human")
        done == SelectSeq(h, LAMBDA e : e \in Nodes)
    IN
    /\ Len(ai) = Len(done)
    /\ Len(human) <= Count(h, START)
    /\ Len(messages) = Len(human) + Len(done)
    /\ (h # <<>> /\ h[Len(h)] \in Nodes) =>
          Len(Get(final_state["caller"], "messages", <<>>)) = 1

\* a run started without any message has ended: every node took its early
\* return and the conversation holds their four messages
C39_EarlyReturnsCounted ==
    /\ cp["direct"].exists /\ cp["direct"].next = END
    /\ hist["caller"] = <<START, "collect_patient_info", "analyze_symptoms_node",
                          "collect_medical_history", "create_recommendations_node",
                          "generate_medical_report">>
    /\ Len(cp["direct"].vals.messages) = 5
    /\ \A i \in 1..5 : cp["direct"].vals.messages[i].role = "ai"

\* every result of the responses, in the order of the responses and, within a
\* response, of its results
RECURSIVE AllResults(_)
AllResults(search_results) ==
    IF search_results = <<>> THEN <<>>
    ELSE Head(search_results).results \o AllResults(Tail(search_results))

\* C40: the results kept by deduplicate_search_results have one entry for each
\* URL found in the responses and no other; the entry of a URL is the first
\* result with that URL in the order of the input, and the entries are in the
\* order of these first results; and deduplicating the results kept, given as
\* one response, returns them unchanged.
C40_FirstResultPerUrl ==
    LET all == AllResults(search.search_results)
        kept == search.unique_results
        first(url) == CHOOSE j \in 1..Len(all) :
                          all[j].url = url /\ \A k \in 1..(j - 1) : all[k].url # url
    IN
    search.pc \in {"deduplicated", "again"} =>
        /\ {kept[i].url : i \in 1..Len(kept)} = {all[j].url : j \in 1..Len(all)}
        /\ \A i, j \in 1..Len(kept) : kept[i].url = kept[j].url => i = j
        /\ \A i \in 1..Len(kept) : kept[i] = all[first(kept[i].url)]
        /\ \A i, j \in 1..Len(kept) : i < j => first(kept[i].url) < first(kept[j].url)
        /\ deduplicate_search_results(<<[results |-> kept]>>) = kept
        /\ search.pc = "again" => kept = search.search_results[1].results

\* two responses had results for one URL with different titles: the result of
\* the first response was kept
C40_DuplicateAcrossResponses ==
    /\ search.pc = "deduplicated"
    /\ search.search_results =
          <<[results |-> <<[url |-> "u1", title |-> "t1"], [url |-> "u2", title |-> "t1"]>>],
            [results |-> <<[url |-> "u1", title |-> "t2"]>>]>>
    /\ search.unique_results = <<[url |-> "u1", title |-> "t1"], [url |-> "u2", title |-> "t1"]>>

====
